---- MODULE Spec2Model ----
(***************************************************************************)
(* A model of bihan's request dispatch: the context (context.ts), the      *)
(* handler chain (chain.ts), the router (router.ts) and the with-header,   *)
(* with-content-type and with-authorization handlers.                      *)
(*                                                                         *)
(* One behaviour of Spec is one call route(createRoutes, request, ctxData).*)
(* JavaScript values are records carrying a "tag"; objects also carry an   *)
(* "id" standing for their identity.  A handler is a caller-supplied       *)
(* function: what it returns (or throws) for the context it is given is    *)
(* drawn from a small set when the chain invokes it.                       *)
(***************************************************************************)
EXTENDS Integers, Sequences, FiniteSets, TLC

VARIABLES
    createRoutes,  \* input: the route list the caller's factory returns
    request,       \* input: the incoming Request
    ctxData,       \* input: caller-supplied context data (<<>> when omitted)
    routes,        \* the list route() iterates, once the factory has run
    factoryCalls,  \* number of times the factory has been called
    pc,            \* position of the route() call
    ri,            \* index of the route under test in the for-of loop
    hi,            \* index of the handler under execution in the chain loop
    initialCtx,    \* the chain's parameter `initialCtx`
    ctx,           \* the chain's local variable `ctx`
    pending,       \* the settled promise of the handler being awaited
    chainOutcome,  \* the settled promise of the handler from intoHandler()
    result,        \* the settled promise of route()
    log,           \* history: every handler invocation, in order
    execCalls,     \* history: indices of the routes whose pattern was exec'd
    nextId,        \* next unused object identity
    objs,          \* the contexts made by createContext and with, by identity
    probe,         \* the last isContext call: its argument and its answer
    frames         \* the suspended calls: their saved local state

vars == <<createRoutes, request, ctxData, routes, factoryCalls, pc, ri, hi,
          initialCtx, ctx, pending, chainOutcome, result, log, execCalls, nextId,
          objs, probe, frames>>

\* the state of a route() call or chain run
runVars == <<createRoutes, request, ctxData, routes, factoryCalls, pc, ri, hi,
             initialCtx, ctx, pending, chainOutcome, result, log, execCalls,
             nextId>>

\* the state of direct calls of the context module
ctxVars == <<objs, probe>>

----------------------------------------------------------------------------
(* Bounds *)

MaxRoutes == 2

MaxHandlers == 3

MaxObjs == 3

MaxBranches == 1

----------------------------------------------------------------------------
(* JavaScript values *)

Undefined == [tag |-> "undefined"]

Null == [tag |-> "null"]

Str(s) == [tag |-> "string", str |-> s]

Num(n) == [tag |-> "number", num |-> n]

Bool(b) == [tag |-> "boolean", bool |-> b]

Error(m) == [tag |-> "error", message |-> m]

Fulfilled(v) == [status |-> "fulfilled", value |-> v]

Rejected(e) == [status |-> "rejected", value |-> e]

None == [status |-> "none"]

EmptyData == <<>>

\* mutant: the first object's value is kept on collision
Spread_FirstWins(a, b) == a @@ b

\* { ...a, ...b }: the keys of both, b's value on collision
Spread(a, b) == b @@ a

----------------------------------------------------------------------------
(* context.ts *)

createWithFn(data) == [tag |-> "function", brand |-> TRUE, data |-> data]

\* mutant: the data is spread after `with`, so its own `with` key wins
createContext_DataWins(data, id) ==
    [tag |-> "object", id |-> id,
     fields |-> Spread("with" :> createWithFn(data), data)]

createContext(data, id) ==
    [tag |-> "object", id |-> id,
     fields |-> Spread(data, "with" :> createWithFn(data))]

\* mutant: the receiver's data is not carried over
With_DropsBase(c, ext, id) == createContext(ext, id)

\* mutant: an empty patch returns the receiver itself
With_SelfOnEmpty(c, ext, id) ==
    IF ext = EmptyData THEN c
    ELSE createContext(Spread(c.fields["with"].data, ext), id)

\* mutant: a field that is an object on both sides is merged, not replaced
With_DeepMerge(c, ext, id) ==
    LET data == c.fields["with"].data
        merged == [k \in (DOMAIN data) \cup (DOMAIN ext) |->
                     IF k \notin DOMAIN ext THEN data[k]
                     ELSE IF k \in DOMAIN data /\ "fields" \in DOMAIN data[k]
                             /\ "fields" \in DOMAIN ext[k]
                          THEN [ext[k] EXCEPT !.fields = Spread(data[k].fields, @)]
                          ELSE ext[k]]
    IN createContext(merged, id)

\* mutant: with spreads the receiver's current fields, not its creation data
With_FromFields(c, ext, id) ==
    createContext(
        Spread([k \in (DOMAIN c.fields) \ {"with"} |-> c.fields[k]], ext), id)

\* c.with(ext), allocating the new object at identity id
With(c, ext, id) == createContext(Spread(c.fields["with"].data, ext), id)

\* `typeof value`
TypeOf(value) ==
    IF value.tag \in {"null", "array", "error", "Request", "URLPatternResult"}
    THEN "object"
    ELSE value.tag

\* `name in value`, for a value that is an object or a function
HasProperty(value, name) ==
    "fields" \in DOMAIN value /\ name \in DOMAIN value.fields

\* `CONTEXT_BRAND in fn`
HasBrand(fn) == fn.brand

\* mutant: the brand of the `with` function is not tested
isContext_Structural(value) ==
    /\ TypeOf(value) = "object"
    /\ value # Null
    /\ HasProperty(value, "with")
    /\ TypeOf(value.fields["with"]) = "function"

isContext(value) ==
    /\ TypeOf(value) = "object"
    /\ value # Null
    /\ HasProperty(value, "with")
    /\ TypeOf(value.fields["with"]) = "function"
    /\ HasBrand(value.fields["with"])

----------------------------------------------------------------------------
(* chain.ts *)

chainImpl(handlers, meta) == [handlers |-> handlers, meta |-> meta]

createChain(meta) == chainImpl(<<>>, meta)

\* mutant: a chain whose last handler always terminates is returned as it is
pipe_SkipsTerminated(chain, handler) ==
    IF /\ chain.handlers # <<>>
       /\ "returns" \in DOMAIN chain.handlers[Len(chain.handlers)]
       /\ chain.handlers[Len(chain.handlers)].returns # Undefined
    THEN chain
    ELSE chainImpl(Append(chain.handlers, handler), chain.meta)

pipe(chain, handler) == chainImpl(Append(chain.handlers, handler), chain.meta)

\* mutant: a terminal result falls through to the next iteration
StepKind_TerminalContinues(r) ==
    IF isContext(r) THEN "augment" ELSE "continue"

\* mutant: the `result === undefined` test is missing
StepKind_NoUndefinedCheck(r) ==
    IF isContext(r) THEN "augment" ELSE "terminate"

\* mutant: any object with a `with` property counts as a context
StepKind_DuckTyped(r) ==
    IF r = Undefined THEN "continue"
    ELSE IF HasProperty(r, "with") THEN "augment"
    ELSE "terminate"

\* mutant: `if (!result) continue`
StepKind_Falsy(r) ==
    IF r \in {Undefined, Null, Bool(FALSE), Num(0), Str("")} THEN "continue"
    ELSE IF isContext(r) THEN "augment"
    ELSE "terminate"

\* mutant: the isContext test is missing, a context ends the run
StepKind_NoContextCheck(r) ==
    IF r = Undefined THEN "continue" ELSE "terminate"

\* mutant: any object result replaces the context
StepKind_AnyObject(r) ==
    IF r = Undefined THEN "continue"
    ELSE IF TypeOf(r) = "object" THEN "augment"
    ELSE "terminate"

\* The three-way branch of the chain loop on an awaited handler result
StepKind(r) ==
    IF r = Undefined THEN "continue"
    ELSE IF isContext(r) THEN "augment"
    ELSE "terminate"

\* mutant: `ctx` is never reassigned
NextCtx_Stale(c, r) == c

\* The value of `ctx` the next handler is called with, after result r
NextCtx(c, r) == IF StepKind(r) = "augment" THEN r ELSE c

\* mutant: a bare `return`
ChainReturn_Nothing(r) == Fulfilled(Undefined)

\* `return result`: the value the chain resolves to on a terminal result
ChainReturn(r) == Fulfilled(r)

\* mutant: `return null` after the loop
ChainFallThrough_Null == Fulfilled(Null)

\* `return undefined` after the loop
ChainFallThrough == Fulfilled(Undefined)

\* mutant: the error is caught and replaced
ChainThrow_Wrapped(e) == Rejected(Error("chain failed"))

\* `await handler(ctx)` when the handler throws or its promise rejects:
\* nothing catches, the async function rejects with the same error
ChainThrow(e) == Rejected(e)

----------------------------------------------------------------------------
(* The URLPattern collaborator *)

Patterns == {"/api/*", "/api/users"}

Urls == {"/api/users", "/api/posts"}

\* URLPattern.test for the pathnames above
URLPatternTest(pathname, url) ==
    \/ pathname = url
    \/ pathname = "/api/*" /\ url \in {"/api/users", "/api/posts"}

URLPattern(pathname) == [tag |-> "URLPattern", pathname |-> pathname]

\* URLPattern.prototype.exec: a match result, or null
Exec(pattern, url) ==
    IF URLPatternTest(pattern.pathname, url)
    THEN [tag |-> "URLPatternResult", pattern |-> pattern.pathname, input |-> url]
    ELSE Null

----------------------------------------------------------------------------
(* router.ts *)

RouteMethods == {"GET", "*"}

RequestMethods == {"GET", "POST"}

Request(method, url) == [tag |-> "Request", method |-> method, url |-> url]

\* on(method, pattern) for a pathname string
On(method, pattern) == createChain([method |-> method, pattern |-> URLPattern(pattern)])

\* mutant: the wildcard test is missing
MethodSkips_NoWildcard(route, req) == req.method # route.meta.method

\* mutant: the method is not tested
MethodSkips_Never(route, req) == FALSE

\* `route.meta.method !== "*" && request.method !== route.meta.method`
MethodSkips(route, req) ==
    route.meta.method # "*" /\ req.method # route.meta.method

\* mutant: the null test never succeeds
PatternSkips_Never(urlPatternResult) == FALSE

\* `urlPatternResult === null`
PatternSkips(urlPatternResult) == urlPatternResult = Null

\* mutant: a skip also drops the following route
Continue_SkipsOne(i) == i + 2

\* `continue`: the index of the route the for-of loop tests next
Continue(i) == i + 1

\* mutant: the intrinsics are spread after the caller's data
InitialContext_IntrinsicsWin(req, urlPatternResult, data, id) ==
    createContext(
        Spread(data, "request" :> req @@ "urlPatternResult" :> urlPatternResult),
        id)

\* createContext({ request, urlPatternResult, ...ctxData })
InitialContext(req, urlPatternResult, data, id) ==
    createContext(
        Spread("request" :> req @@ "urlPatternResult" :> urlPatternResult, data),
        id)

\* `return await handler(context)`: route() settles as the chain settled
RouteReturn(outcome) == outcome

\* mutant: no match is reported as a failure
RouteNoMatch_Throws == Rejected(Error("no route matched"))

\* `return undefined` after the for-of loop
RouteNoMatch == Fulfilled(Undefined)

----------------------------------------------------------------------------
(* Inputs *)

\* The i-th handler piped onto the r-th declared route
Handler(r, i) == [tag |-> "function", brand |-> FALSE, route |-> r, pos |-> i]

RECURSIVE PipeHandlers(_, _, _)
\* on(...).pipe(h1).pipe(h2)...pipe(hn) for the r-th route
PipeHandlers(chain, r, n) ==
    IF n = 0 THEN chain
    ELSE pipe(PipeHandlers(chain, r, n - 1), Handler(r, n))

RouteDecls == [method : RouteMethods, pattern : Patterns]

\* What a route-declaration factory can return: up to MaxRoutes routes, each
\* with the same number of piped handlers
RouteLists ==
    UNION { { [r \in 1..k |-> PipeHandlers(On(d[r].method, d[r].pattern), r, n)] :
                d \in [1..k -> RouteDecls], n \in 0..MaxHandlers } : k \in 0..MaxRoutes }

Requests == { Request(m, u) : m \in RequestMethods, u \in Urls }

CtxDatas == { EmptyData, "request" :> Str("caller") @@ "user" :> Str("alice") }

\* What a handler passes to ctx.with: the step count of the context it was
\* given, plus one
Patches(c) ==
    { "step" :> Num(IF "step" \in DOMAIN c.fields THEN c.fields["step"].num + 1 ELSE 1) }

PlainObject(id) == [tag |-> "object", id |-> id, fields |-> "status" :> Str("ok")]

\* What a handler called with context c can settle to: undefined, an
\* augmented context, a terminal value, or a thrown error
HandlerOutcomes(c, id) ==
    { Fulfilled(Undefined), Fulfilled(Str("done")), Fulfilled(PlainObject(id)),
      Rejected(Error("boom")) }
    \cup { Fulfilled(With(c, p, id)) : p \in Patches(c) }

----------------------------------------------------------------------------
(* route(createRoutes, request, ctxData) *)

Init ==
    /\ createRoutes \in RouteLists
    /\ request \in Requests
    /\ ctxData \in CtxDatas
    /\ routes = <<>>
    /\ factoryCalls = 0
    /\ pc = "start"
    /\ ri = 0
    /\ hi = 0
    /\ initialCtx = Undefined
    /\ ctx = Undefined
    /\ pending = None
    /\ chainOutcome = None
    /\ result = None
    /\ log = <<>>
    /\ execCalls = <<>>
    /\ nextId = 1
    /\ objs = <<>>
    /\ probe = None
    /\ frames = <<>>

\* mutant: the routes of the previous call stay registered
CreateRoutes_Persisting ==
    /\ pc = "start"
    /\ routes' = (IF frames = <<>> THEN <<>> ELSE frames[1].routes) \o createRoutes
    /\ factoryCalls' = factoryCalls + 1
    /\ ri' = 1
    /\ pc' = "scan"
    /\ UNCHANGED <<ctxVars, frames, initialCtx, createRoutes, request, ctxData, hi,
                   ctx, pending, chainOutcome, result, log, execCalls, nextId>>

\* mutant: only the first route is declared before scanning starts
CreateRoutes_Lazy ==
    /\ pc = "start"
    /\ routes' = IF createRoutes = <<>> THEN <<>> ELSE <<createRoutes[1]>>
    /\ factoryCalls' = factoryCalls + 1
    /\ ri' = 1
    /\ pc' = "scan"
    /\ UNCHANGED <<ctxVars, frames, initialCtx, createRoutes, request, ctxData, hi,
                   ctx, pending, chainOutcome, result, log, execCalls, nextId>>

\* createRoutes({ on }) and Iterator.from(...)
CreateRoutes ==
    /\ pc = "start"
    /\ routes' = createRoutes
    /\ factoryCalls' = factoryCalls + 1
    /\ ri' = 1
    /\ pc' = "scan"
    /\ UNCHANGED <<ctxVars, frames, initialCtx, createRoutes, request, ctxData, hi, ctx, pending,
                   chainOutcome, result, log, execCalls, nextId>>

\* the method test fails: continue
SkipMethod ==
    /\ pc = "scan"
    /\ ri <= Len(routes)
    /\ MethodSkips(routes[ri], request)
    /\ ri' = Continue(ri)
    /\ UNCHANGED <<ctxVars, frames, initialCtx, createRoutes, request, ctxData, routes, factoryCalls, pc,
                   hi, ctx, pending, chainOutcome, result, log, execCalls,
                   nextId>>

\* the method test passes, pattern.exec returns null: continue
SkipPattern ==
    /\ pc = "scan"
    /\ ri <= Len(routes)
    /\ ~MethodSkips(routes[ri], request)
    /\ PatternSkips(Exec(routes[ri].meta.pattern, request.url))
    /\ execCalls' = Append(execCalls, ri)
    /\ ri' = Continue(ri)
    /\ UNCHANGED <<ctxVars, frames, initialCtx, createRoutes, request, ctxData, routes, factoryCalls, pc,
                   hi, ctx, pending, chainOutcome, result, log, nextId>>

\* mutant: the pattern of the first declared route is exec'd for every route
Match_FirstPattern ==
    /\ pc = "scan"
    /\ ri <= Len(routes)
    /\ ~MethodSkips(routes[ri], request)
    /\ ~PatternSkips(Exec(routes[ri].meta.pattern, request.url))
    /\ initialCtx' = InitialContext(request,
                                    Exec(routes[1].meta.pattern, request.url),
                                    ctxData, nextId)
    /\ ctx' = initialCtx'
    /\ execCalls' = Append(execCalls, ri)
    /\ nextId' = nextId + 1
    /\ hi' = 1
    /\ pc' = "chainLoop"
    /\ UNCHANGED <<ctxVars, frames, createRoutes, request, ctxData, routes, factoryCalls,
                   ri, pending, chainOutcome, result, log>>

\* both tests pass: build the initial context and call route.intoHandler()
\* on it, which sets `ctx = initialCtx` and enters the chain loop
Match ==
    /\ pc = "scan"
    /\ ri <= Len(routes)
    /\ ~MethodSkips(routes[ri], request)
    /\ LET urlPatternResult == Exec(routes[ri].meta.pattern, request.url) IN
         /\ ~PatternSkips(urlPatternResult)
         /\ initialCtx' = InitialContext(request, urlPatternResult, ctxData, nextId)
    /\ ctx' = initialCtx'
    /\ execCalls' = Append(execCalls, ri)
    /\ nextId' = nextId + 1
    /\ hi' = 1
    /\ pc' = "chainLoop"
    /\ UNCHANGED <<ctxVars, frames, createRoutes, request, ctxData, routes, factoryCalls, ri,
                   pending, chainOutcome, result, log>>

\* the for-of loop over the routes is exhausted: return undefined
NoMatch ==
    /\ pc = "scan"
    /\ ri > Len(routes)
    /\ result' = RouteNoMatch
    /\ pc' = "done"
    /\ UNCHANGED <<ctxVars, frames, initialCtx, createRoutes, request, ctxData, routes, factoryCalls, ri,
                   hi, ctx, pending, chainOutcome, log, execCalls, nextId>>

\* mutant: the next handler is started while the previous one is awaited
InvokeHandler_Eager ==
    /\ pc \in {"chainLoop", "chainAwait"}
    /\ Len(log) < Len(routes[ri].handlers)
    /\ \E o \in HandlerOutcomes(ctx, nextId) :
         /\ pending' = o
         /\ log' = Append(log, [handler |-> routes[ri].handlers[Len(log) + 1],
                                arg |-> ctx, settled |-> o])
    /\ nextId' = nextId + 1
    /\ pc' = "chainAwait"
    /\ UNCHANGED <<ctxVars, frames, initialCtx, createRoutes, request, ctxData, routes, factoryCalls, ri,
                   hi, ctx, chainOutcome, result, execCalls>>

\* `handler(ctx)`: the chain calls its next handler with the current context
InvokeHandler ==
    /\ pc = "chainLoop"
    /\ hi <= Len(routes[ri].handlers)
    /\ \E o \in HandlerOutcomes(ctx, nextId) :
         /\ pending' = o
         /\ log' = Append(log, [handler |-> routes[ri].handlers[hi],
                                arg |-> ctx, settled |-> o])
    /\ nextId' = nextId + 1
    /\ pc' = "chainAwait"
    /\ UNCHANGED <<ctxVars, frames, initialCtx, createRoutes, request, ctxData, routes, factoryCalls, ri,
                   hi, ctx, chainOutcome, result, execCalls>>

\* mutant: the loop stays once on its first handler before it moves on
ResumeContinue_Repeats ==
    /\ pc = "chainAwait"
    /\ pending.status = "fulfilled"
    /\ StepKind(pending.value) \in {"continue", "augment"}
    /\ ctx' = NextCtx(ctx, pending.value)
    /\ hi' = IF Len(log) = 1 THEN hi ELSE hi + 1
    /\ pending' = None
    /\ pc' = "chainLoop"
    /\ UNCHANGED <<ctxVars, frames, initialCtx, createRoutes, request, ctxData, routes, factoryCalls, ri,
                   chainOutcome, result, log, execCalls, nextId>>

\* `await` resumes with a result that is undefined or a context: continue
\* with the next handler
ResumeContinue ==
    /\ pc = "chainAwait"
    /\ pending.status = "fulfilled"
    /\ StepKind(pending.value) \in {"continue", "augment"}
    /\ ctx' = NextCtx(ctx, pending.value)
    /\ hi' = hi + 1
    /\ pending' = None
    /\ pc' = "chainLoop"
    /\ UNCHANGED <<ctxVars, frames, initialCtx, createRoutes, request, ctxData, routes, factoryCalls, ri,
                   chainOutcome, result, log, execCalls, nextId>>

\* `await` resumes with any other result: terminate chain and return result
ResumeTerminate ==
    /\ pc = "chainAwait"
    /\ pending.status = "fulfilled"
    /\ StepKind(pending.value) = "terminate"
    /\ chainOutcome' = ChainReturn(pending.value)
    /\ pending' = None
    /\ pc' = "routeAwait"
    /\ UNCHANGED <<ctxVars, frames, initialCtx, createRoutes, request, ctxData, routes, factoryCalls, ri,
                   hi, ctx, result, log, execCalls, nextId>>

\* `await` throws the handler's error: the chain's promise rejects
ResumeThrow ==
    /\ pc = "chainAwait"
    /\ pending.status = "rejected"
    /\ chainOutcome' = ChainThrow(pending.value)
    /\ pending' = None
    /\ pc' = "routeAwait"
    /\ UNCHANGED <<ctxVars, frames, initialCtx, createRoutes, request, ctxData, routes, factoryCalls, ri,
                   hi, ctx, result, log, execCalls, nextId>>

\* the for-of loop over the handlers is exhausted: return undefined
ChainExhausted ==
    /\ pc = "chainLoop"
    /\ hi > Len(routes[ri].handlers)
    /\ chainOutcome' = ChainFallThrough
    /\ pc' = "routeAwait"
    /\ UNCHANGED <<ctxVars, frames, initialCtx, createRoutes, request, ctxData, routes, factoryCalls, ri,
                   hi, ctx, pending, result, log, execCalls, nextId>>

\* mutant: an undefined chain result falls through to the next route
Return_FallThrough ==
    /\ pc = "routeAwait"
    /\ IF chainOutcome = Fulfilled(Undefined)
       THEN /\ ri' = Continue(ri)
            /\ pc' = "scan"
            /\ result' = result
       ELSE /\ ri' = ri
            /\ pc' = "done"
            /\ result' = RouteReturn(chainOutcome)
    /\ UNCHANGED <<ctxVars, frames, initialCtx, createRoutes, request, ctxData, routes, factoryCalls,
                   hi, ctx, pending, chainOutcome, log, execCalls, nextId>>

\* `return await handler(context)`
Return ==
    /\ pc = "routeAwait"
    /\ result' = RouteReturn(chainOutcome)
    /\ pc' = "done"
    /\ UNCHANGED <<ctxVars, frames, initialCtx, createRoutes, request, ctxData, routes, factoryCalls, ri,
                   hi, ctx, pending, chainOutcome, log, execCalls, nextId>>

Next ==
    \/ CreateRoutes
    \/ SkipMethod
    \/ SkipPattern
    \/ Match
    \/ NoMatch
    \/ InvokeHandler
    \/ ResumeContinue
    \/ ResumeTerminate
    \/ ResumeThrow
    \/ ChainExhausted
    \/ Return

Spec == Init /\ [][Next]_vars

TypeOK ==
    /\ pc \in {"start", "scan", "chainLoop", "chainAwait", "routeAwait", "done"}
    /\ factoryCalls \in 0..1
    /\ ri \in 0..(MaxRoutes + 1)
    /\ hi \in 0..(MaxHandlers + 1)

----------------------------------------------------------------------------
(* Direct calls of createContext, with and isContext *)

\* Data and patches given to createContext and with
DataSets ==
    { EmptyData, "a" :> Num(1), "a" :> Num(2), "b" :> Num(1),
      "a" :> Num(1) @@ "b" :> Num(1) }

\* A function that is not a context's `with`
OrdinaryFn == [tag |-> "function", brand |-> FALSE]

\* An object literal
Obj(fields) == [tag |-> "object", id |-> 0, fields |-> fields]

\* An array: it inherits Array.prototype.with, an ordinary function
Array == [tag |-> "array", id |-> 0, fields |-> "with" :> OrdinaryFn]

\* Values that are not contexts
PlainValues ==
    { Null, Undefined, Str("string"), Num(42), Bool(TRUE), OrdinaryFn, Array,
      Obj(EmptyData), Obj("name" :> Str("test")),
      Obj("with" :> Undefined), Obj("with" :> Str("not-function")),
      Obj("with" :> Num(42)), Obj("with" :> Null), Obj("with" :> Obj(EmptyData)),
      Obj("with" :> OrdinaryFn @@ "someData" :> Bool(TRUE)) }

InitCtx ==
    /\ createRoutes = <<>>
    /\ request = Undefined
    /\ ctxData = EmptyData
    /\ routes = <<>>
    /\ factoryCalls = 0
    /\ pc = "context"
    /\ ri = 0
    /\ hi = 0
    /\ initialCtx = Undefined
    /\ ctx = Undefined
    /\ pending = None
    /\ chainOutcome = None
    /\ result = None
    /\ log = <<>>
    /\ execCalls = <<>>
    /\ nextId = 1
    /\ objs = <<>>
    /\ probe = None
    /\ frames = <<>>

\* createContext(data): `value` is the object, `made` the object as it was
\* when it was made
CallCreateContext ==
    /\ pc = "context"
    /\ Len(objs) < MaxObjs
    /\ \E data \in DataSets :
         LET c == createContext(data, nextId) IN
         objs' = Append(objs, [value |-> c, made |-> c, parent |-> 0, patch |-> data])
    /\ nextId' = nextId + 1
    /\ UNCHANGED <<createRoutes, request, ctxData, routes, factoryCalls, pc, ri,
                   hi, initialCtx, ctx, pending, chainOutcome, result, log,
                   execCalls, probe, frames>>

\* mutant: with assigns the patch into the data the receiver closes over
CallWith_AssignsData ==
    /\ pc = "context"
    /\ Len(objs) < MaxObjs
    /\ \E i \in 1..Len(objs) : \E ext \in DataSets :
         LET c == With(objs[i].value, ext, nextId) IN
         objs' = Append(
             [objs EXCEPT ![i].value.fields["with"].data = Spread(@, ext)],
             [value |-> c, made |-> c, parent |-> i, patch |-> ext])
    /\ nextId' = nextId + 1
    /\ UNCHANGED <<createRoutes, request, ctxData, routes, factoryCalls, pc, ri,
                   hi, initialCtx, ctx, pending, chainOutcome, result, log,
                   execCalls, probe, frames>>

\* c.with(ext) on a context made earlier
CallWith ==
    /\ pc = "context"
    /\ Len(objs) < MaxObjs
    /\ \E i \in 1..Len(objs) : \E ext \in DataSets :
         LET c == With(objs[i].value, ext, nextId) IN
         objs' = Append(objs, [value |-> c, made |-> c, parent |-> i, patch |-> ext])
    /\ nextId' = nextId + 1
    /\ UNCHANGED <<createRoutes, request, ctxData, routes, factoryCalls, pc, ri,
                   hi, initialCtx, ctx, pending, chainOutcome, result, log,
                   execCalls, probe, frames>>

\* isContext(value) on a plain value or on a context made earlier
CallIsContext ==
    /\ pc = "context"
    /\ \E value \in PlainValues \cup { objs[i].value : i \in 1..Len(objs) } :
         probe' = [value |-> value, answer |-> isContext(value)]
    /\ UNCHANGED <<runVars, objs, frames>>

ContextNext ==
    \/ CallCreateContext
    \/ CallWith
    \/ CallIsContext

SpecCtx == InitCtx /\ [][ContextNext]_vars

----------------------------------------------------------------------------
(* branch(factory, ctx): a chain built by the caller and run on a context *)

\* The contexts branch is called with
BranchContexts == { createContext(data, 1) : data \in {EmptyData, "a" :> Num(1)} }

\* What factory(createChain().pipe) can return: a chain of n handlers
BranchChains == { PipeHandlers(createChain(Undefined), 1, n) : n \in 0..MaxHandlers }

\* { ...c, copied: true }: a new object with the own properties of c
CopyOf(c, id) ==
    [tag |-> "object", id |-> id, fields |-> Spread(c.fields, "copied" :> Bool(TRUE))]

\* An object literal with an ordinary function named `with`
FakeContext == Obj("with" :> OrdinaryFn @@ "someData" :> Bool(TRUE))

FalsyValues == { Null, Bool(FALSE), Num(0), Str("") }

\* What a handler called with context c can settle to, falsy values and
\* context look-alikes included
AnyHandlerOutcomes(c, id) ==
    HandlerOutcomes(c, id)
    \cup { Fulfilled(v) : v \in FalsyValues }
    \cup { Fulfilled(FakeContext), Fulfilled(CopyOf(c, id)) }

InitChain ==
    /\ createRoutes \in { <<chain>> : chain \in BranchChains }
    /\ request = Undefined
    /\ ctxData = EmptyData
    /\ routes = <<>>
    /\ factoryCalls = 0
    /\ pc = "branch"
    /\ ri = 0
    /\ hi = 0
    /\ initialCtx \in BranchContexts
    /\ ctx = Undefined
    /\ pending = None
    /\ chainOutcome = None
    /\ result = None
    /\ log = <<>>
    /\ execCalls = <<>>
    /\ nextId = 2
    /\ objs = <<>>
    /\ probe = None
    /\ frames = <<>>

\* factory(createChain().pipe).intoHandler()(ctx)
Branch ==
    /\ pc = "branch"
    /\ routes' = createRoutes
    /\ factoryCalls' = factoryCalls + 1
    /\ ri' = 1
    /\ hi' = 1
    /\ ctx' = initialCtx
    /\ pc' = "chainLoop"
    /\ UNCHANGED <<ctxVars, frames, initialCtx, createRoutes, request, ctxData, pending,
                   chainOutcome, result, log, execCalls, nextId>>

\* `handler(ctx)` for a handler that may return anything
InvokeAnyHandler ==
    /\ pc = "chainLoop"
    /\ hi <= Len(routes[ri].handlers)
    /\ \E o \in AnyHandlerOutcomes(ctx, nextId) :
         /\ pending' = o
         /\ log' = Append(log, [handler |-> routes[ri].handlers[hi],
                                arg |-> ctx, settled |-> o])
    /\ nextId' = nextId + 1
    /\ pc' = "chainAwait"
    /\ UNCHANGED <<ctxVars, frames, initialCtx, createRoutes, request, ctxData, routes,
                   factoryCalls, ri, hi, ctx, chainOutcome, result, execCalls>>

\* `await ...intoHandler()(ctx)`: branch settles as the chain settled
BranchReturn ==
    /\ pc = "routeAwait"
    /\ result' = chainOutcome
    /\ pc' = "done"
    /\ UNCHANGED <<ctxVars, frames, initialCtx, createRoutes, request, ctxData, routes,
                   factoryCalls, ri, hi, ctx, pending, chainOutcome, log,
                   execCalls, nextId>>

ChainNext ==
    \/ Branch
    \/ InvokeAnyHandler
    \/ ResumeContinue
    \/ ResumeTerminate
    \/ ResumeThrow
    \/ ChainExhausted
    \/ BranchReturn

SpecChain == InitChain /\ [][ChainNext]_vars

----------------------------------------------------------------------------
(* A handler that runs a sub-chain with branch(factory, ctx) *)

\* The local state of a call, as it is kept while the call is suspended
Frame ==
    [createRoutes |-> createRoutes, request |-> request, ctxData |-> ctxData,
     routes |-> routes, factoryCalls |-> factoryCalls, pc |-> pc, ri |-> ri,
     hi |-> hi, initialCtx |-> initialCtx, ctx |-> ctx, pending |-> pending,
     chainOutcome |-> chainOutcome, result |-> result, log |-> log,
     execCalls |-> execCalls]

\* What the factory of a sub-chain can return: a chain of n handlers
SubChains == { PipeHandlers(createChain(Undefined), 2, n) : n \in 0..MaxHandlers }

\* Response.json({ result: v })
ResponseJson(v, id) == [tag |-> "object", id |-> id, fields |-> "result" :> v]

\* What a handler can settle to once the sub-chain it awaited has settled as
\* `inner`: it rethrows or swallows a failure, and it ignores, returns, wraps
\* or stores in the context the value of a success
BranchingOutcomes(c, inner, id) ==
    IF inner.status = "rejected"
    THEN { inner, Fulfilled(Undefined) }
    ELSE { Fulfilled(Undefined), inner, Fulfilled(ResponseJson(inner.value, id)),
           Fulfilled(With(c, "branched" :> inner.value, id)) }

\* the handler under execution calls branch(factory, ctx) and awaits it: its
\* chain is suspended and the sub-chain is about to run on the current context
CallBranch ==
    /\ pc = "chainLoop"
    /\ hi <= Len(routes[ri].handlers)
    /\ frames = <<>>
    /\ Cardinality({ j \in 1..Len(log) : "inner" \in DOMAIN log[j] }) < MaxBranches
    /\ frames' = <<Frame>>
    /\ createRoutes' \in { <<chain>> : chain \in SubChains }
    /\ initialCtx' = ctx
    /\ routes' = <<>>
    /\ factoryCalls' = 0
    /\ ri' = 0
    /\ hi' = 0
    /\ ctx' = Undefined
    /\ pending' = None
    /\ chainOutcome' = None
    /\ result' = None
    /\ log' = <<>>
    /\ pc' = "branch"
    /\ UNCHANGED <<ctxVars, request, ctxData, execCalls, nextId>>

\* mutant: a terminal value of the sub-chain ends the enclosing chain
BranchSettles_TerminatesOuter ==
    /\ pc = "done"
    /\ frames # <<>>
    /\ LET f == frames[1] IN
         /\ \E o \in BranchingOutcomes(f.ctx, result, nextId) :
              /\ log' = Append(f.log, [handler |-> f.routes[f.ri].handlers[f.hi],
                                       arg |-> f.ctx, settled |-> o,
                                       inner |-> result])
              /\ IF result.status = "fulfilled" /\ result.value # Undefined
                 THEN /\ pending' = None
                      /\ chainOutcome' = result
                      /\ pc' = "routeAwait"
                 ELSE /\ pending' = o
                      /\ chainOutcome' = f.chainOutcome
                      /\ pc' = "chainAwait"
         /\ createRoutes' = f.createRoutes
         /\ routes' = f.routes
         /\ factoryCalls' = f.factoryCalls
         /\ ri' = f.ri
         /\ hi' = f.hi
         /\ initialCtx' = f.initialCtx
         /\ ctx' = f.ctx
         /\ result' = f.result
    /\ frames' = <<>>
    /\ nextId' = nextId + 1
    /\ UNCHANGED <<ctxVars, request, ctxData, execCalls>>

\* `await branch(...)` resumes in the calling handler with what the sub-chain
\* settled to; the handler settles, and its chain awaits it like any handler
BranchSettles ==
    /\ pc = "done"
    /\ frames # <<>>
    /\ LET f == frames[1] IN
         /\ \E o \in BranchingOutcomes(f.ctx, result, nextId) :
              /\ pending' = o
              /\ log' = Append(f.log, [handler |-> f.routes[f.ri].handlers[f.hi],
                                       arg |-> f.ctx, settled |-> o,
                                       inner |-> result])
         /\ createRoutes' = f.createRoutes
         /\ routes' = f.routes
         /\ factoryCalls' = f.factoryCalls
         /\ ri' = f.ri
         /\ hi' = f.hi
         /\ initialCtx' = f.initialCtx
         /\ ctx' = f.ctx
         /\ chainOutcome' = f.chainOutcome
         /\ result' = f.result
    /\ frames' = <<>>
    /\ nextId' = nextId + 1
    /\ pc' = "chainAwait"
    /\ UNCHANGED <<ctxVars, request, ctxData, execCalls>>

NestedNext ==
    \/ Branch
    \/ InvokeHandler
    \/ CallBranch
    \/ BranchSettles
    \/ ResumeContinue
    \/ ResumeTerminate
    \/ ResumeThrow
    \/ ChainExhausted
    \/ BranchReturn

SpecNested == InitChain /\ [][NestedNext]_vars

----------------------------------------------------------------------------
(* Chains built with createChain and pipe, then run *)

\* The handlers given to pipe
PipeArgs == { Handler(0, 1), Handler(0, 2) }

InitPipe ==
    /\ createRoutes = <<>>
    /\ request = Undefined
    /\ ctxData = EmptyData
    /\ routes = <<>>
    /\ factoryCalls = 0
    /\ pc = "pipe"
    /\ ri = 0
    /\ hi = 0
    /\ initialCtx = Undefined
    /\ ctx = Undefined
    /\ pending = None
    /\ chainOutcome = None
    /\ result = None
    /\ log = <<>>
    /\ execCalls = <<>>
    /\ nextId = 1
    /\ objs = <<>>
    /\ probe = None
    /\ frames = <<>>

\* createChain(): `value` is the chain, `made` the chain as it was when it
\* was made
CallCreateChain ==
    /\ pc = "pipe"
    /\ Len(objs) < MaxObjs
    /\ LET chain == createChain(Undefined) IN
         objs' = Append(objs, [value |-> chain, made |-> chain, parent |-> 0,
                               handler |-> Undefined])
    /\ UNCHANGED <<runVars, probe, frames>>

\* mutant: pipe pushes the handler onto the receiver's own array
CallPipe_Pushes ==
    /\ pc = "pipe"
    /\ Len(objs) < MaxObjs
    /\ \E i \in 1..Len(objs) : \E h \in PipeArgs :
         LET chain == pipe(objs[i].value, h) IN
         objs' = Append(
             [objs EXCEPT ![i].value.handlers = Append(@, h)],
             [value |-> chain, made |-> chain, parent |-> i, handler |-> h])
    /\ UNCHANGED <<runVars, probe, frames>>

\* chain.pipe(h) on a chain made earlier
CallPipe ==
    /\ pc = "pipe"
    /\ Len(objs) < MaxObjs
    /\ \E i \in 1..Len(objs) : \E h \in PipeArgs :
         LET chain == pipe(objs[i].value, h) IN
         objs' = Append(objs, [value |-> chain, made |-> chain, parent |-> i,
                               handler |-> h])
    /\ UNCHANGED <<runVars, probe, frames>>

\* branch(() => chain, ctx) for a chain made earlier: `probe` keeps which
RunChain ==
    /\ pc = "pipe"
    /\ \E i \in 1..Len(objs) :
         /\ createRoutes' = <<objs[i].value>>
         /\ probe' = [chain |-> i]
    /\ initialCtx' = createContext(EmptyData, nextId)
    /\ nextId' = nextId + 1
    /\ pc' = "branch"
    /\ UNCHANGED <<request, ctxData, routes, factoryCalls, ri, hi, ctx, pending,
                   chainOutcome, result, log, execCalls, objs, frames>>

PipeNext ==
    \/ CallCreateChain
    \/ CallPipe
    \/ RunChain
    \/ Branch
    \/ InvokeHandler
    \/ ResumeContinue
    \/ ResumeTerminate
    \/ ResumeThrow
    \/ ChainExhausted
    \/ BranchReturn

SpecPipe == InitPipe /\ [][PipeNext]_vars

----------------------------------------------------------------------------
(* Two calls of route(), one after the other *)

\* What the factories given to the two calls return; every route has its
\* own handler
Factories ==
    { <<>>,
      << PipeHandlers(On("GET", "/api/users"), 1, 1) >>,
      << PipeHandlers(On("*", "/api/*"), 2, 1) >>,
      << PipeHandlers(On("GET", "/api/posts"), 3, 1),
         PipeHandlers(On("*", "/api/users"), 4, 1) >> }

InitCalls ==
    /\ createRoutes \in Factories
    /\ request \in Requests
    /\ ctxData = EmptyData
    /\ routes = <<>>
    /\ factoryCalls = 0
    /\ pc = "start"
    /\ ri = 0
    /\ hi = 0
    /\ initialCtx = Undefined
    /\ ctx = Undefined
    /\ pending = None
    /\ chainOutcome = None
    /\ result = None
    /\ log = <<>>
    /\ execCalls = <<>>
    /\ nextId = 1
    /\ objs = <<>>
    /\ probe = None
    /\ frames = <<>>

\* the caller, done with one call, calls route() again with another factory
\* and request: `frames` keeps the finished call, the new call has new locals
CallAgain ==
    /\ pc = "done"
    /\ frames = <<>>
    /\ frames' = <<Frame>>
    /\ createRoutes' \in Factories
    /\ request' \in Requests
    /\ routes' = <<>>
    /\ factoryCalls' = 0
    /\ pc' = "start"
    /\ ri' = 0
    /\ hi' = 0
    /\ initialCtx' = Undefined
    /\ ctx' = Undefined
    /\ pending' = None
    /\ chainOutcome' = None
    /\ result' = None
    /\ log' = <<>>
    /\ execCalls' = <<>>
    /\ UNCHANGED <<ctxVars, ctxData, nextId>>

CallsNext ==
    \/ Next
    \/ CallAgain

SpecCalls == InitCalls /\ [][CallsNext]_vars

----------------------------------------------------------------------------
(* The Headers and Intl.Collator collaborators *)

\* A string whose characters matter is a sequence of characters; a character
\* is a one-letter string or the name of a code point
Chars(s) == [tag |-> "string", str |-> s]

\* U+00AD SOFT HYPHEN, U+00AA FEMININE ORDINAL INDICATOR, U+00E1
SoftHyphen == "U+00AD"

OrdinalA == "U+00AA"

AcuteA == "U+00E1"

\* Headers keeps names in lower case and looks them up in lower case
LowerName(name) ==
    CASE name \in {"X-custom", "x-custom"} -> "x-custom"
      [] name \in {"Content-Type", "content-type"} -> "content-type"
      [] name \in {"Authorization", "authorization"} -> "authorization"

\* Headers.prototype.has
HeadersHas(headers, name) == LowerName(name) \in DOMAIN headers

\* Headers.prototype.get: the value, or null
HeadersGet(headers, name) ==
    IF HeadersHas(headers, name) THEN headers[LowerName(name)] ELSE Null

\* Characters without collation weight
Ignorable == { SoftHyphen }

\* The letter a character is a case or compatibility variant of: a difference
\* the collator ranks third, below base letters and accents
BaseLetter(ch) ==
    CASE ch = "A" -> "a"
      [] ch = "B" -> "b"
      [] ch = OrdinalA -> "a"
      [] OTHER -> ch

\* The base letters and accents of a string, in order
CollationKey(s) ==
    LET kept == SelectSeq(s, LAMBDA ch : ch \notin Ignorable)
    IN  [i \in 1..Len(kept) |-> BaseLetter(kept[i])]

\* new Intl.Collator("en", { sensitivity: "accent" }).compare(a, b): zero
\* when a and b differ in neither base letters nor accents, else nonzero
\* (the sign is not modelled)
CollatorCompare(a, b) == IF CollationKey(a) = CollationKey(b) THEN 0 ELSE 1

RECURSIVE SplitAll(_, _)
\* String.prototype.split(separator) for a one-character separator
SplitAll(s, separator) ==
    IF \A i \in 1..Len(s) : s[i] # separator THEN << s >>
    ELSE LET i == CHOOSE k \in 1..Len(s) :
                      s[k] = separator /\ \A m \in 1..(k - 1) : s[m] # separator
         IN  << SubSeq(s, 1, i - 1) >> \o SplitAll(SubSeq(s, i + 1, Len(s)), separator)

\* String.prototype.split(separator, limit): the first `limit` pieces
Split(s, separator, limit) ==
    LET all == SplitAll(s, separator)
    IN  SubSeq(all, 1, IF Len(all) < limit THEN Len(all) ELSE limit)

\* Response.json(body, { status, headers })
ResponseJson415 == [tag |-> "Response", status |-> 415, headers |-> <<>>]

ResponseJson401 ==
    [tag |-> "Response", status |-> 401,
     headers |-> "www-authenticate" :> Chars(<<"B", "e", "a", "r", "e", "r">>)]

----------------------------------------------------------------------------
(* with-header.ts, with-content-type.ts, with-authorization.ts *)

\* The `expect` callback of withHeader(name, expected)
withHeaderExpect(expected, value, c) ==
    IF value = expected THEN Undefined ELSE ResponseJson415

\* The `expect` callback of withContentType(expectedMediaType)
withContentTypeExpect(expectedMediaType, actualMediaType, c) ==
    IF /\ actualMediaType # Null
       /\ CollatorCompare(expectedMediaType.str, actualMediaType.str) = 0
    THEN Undefined
    ELSE ResponseJson415

\* The caller's authorize function, returning `returns`: what the handler
\* hands on, and the call it received
Authorize(returns, args, c) ==
    [returned |-> returns, calls |-> << [args |-> args, ctx |-> c] >>]

\* mutant: missing credentials are passed as undefined
withAuthorizationExpect_NoDefault(returns, authorization, c) ==
    IF authorization = Null
    THEN [returned |-> ResponseJson401, calls |-> <<>>]
    ELSE LET parts == Split(authorization.str, " ", 2)
         IN  Authorize(returns,
                       [scheme |-> Chars(parts[1]),
                        credentials |-> IF Len(parts) < 2 THEN Undefined
                                        ELSE Chars(parts[2])],
                       c)

\* The `expect` callback of withAuthorization(authorize), for an authorize
\* that returns `returns`
withAuthorizationExpect(returns, authorization, c) ==
    IF authorization = Null
    THEN [returned |-> ResponseJson401, calls |-> <<>>]
    ELSE LET parts == Split(authorization.str, " ", 2)
             scheme == parts[1]
             credentials == IF Len(parts) < 2 THEN Undefined ELSE Chars(parts[2])
         IN  Authorize(returns,
                       [scheme |-> Chars(scheme),
                        credentials |-> IF credentials = Undefined THEN Chars(<<>>)
                                        ELSE credentials],
                       c)

\* expect(value, ctx), for a callback given by the helper that made it and
\* the value it closes over
CallExpect(expect, value, c) ==
    CASE expect.of = "withHeader" -> withHeaderExpect(expect.closes, value, c)
      [] expect.of = "withContentType" ->
             withContentTypeExpect(expect.closes, value, c)
      [] expect.of = "withAuthorization" ->
             withAuthorizationExpect(expect.closes, value, c)

\* withHeaderFn(name, expect)(ctx)
withHeaderFn(name, expect, c) ==
    CallExpect(expect, HeadersGet(c.fields["request"].headers, name), c)

\* mutant: a given `expected` is not compared, only presence is tested
withHeader_PresenceOnly(name, expected, c) ==
    IF HeadersHas(c.fields["request"].headers, name)
    THEN Undefined
    ELSE ResponseJson415

\* withHeader(name, expected)(ctx)
withHeader(name, expected, c) ==
    IF expected = Undefined
    THEN IF HeadersHas(c.fields["request"].headers, name)
         THEN Undefined
         ELSE ResponseJson415
    ELSE withHeaderFn(name, [of |-> "withHeader", closes |-> expected], c)

\* withContentType(expectedMediaType)(ctx)
withContentType(expectedMediaType, c) ==
    withHeaderFn("Content-Type",
                 [of |-> "withContentType", closes |-> expectedMediaType], c)

\* withAuthorization(authorize)(ctx), for an authorize that returns `returns`
withAuthorization(returns, c) ==
    withHeaderFn("Authorization",
                 [of |-> "withAuthorization", closes |-> returns], c)

----------------------------------------------------------------------------
(* Direct calls of the with-* handlers *)

\* Values of the X-custom header: "ok", "no", ""
CustomValues == { Chars(<<"o", "k">>), Chars(<<"n", "o">>), Chars(<<>>) }

\* Values of the Content-Type header: "a/b", "A/b", "a/c", and "a/b" with an
\* acute a, with a soft hyphen inside, with a feminine ordinal for the a
ContentTypeValues ==
    { Chars(<<"a", "/", "b">>), Chars(<<"A", "/", "b">>), Chars(<<"a", "/", "c">>),
      Chars(<<AcuteA, "/", "b">>), Chars(<<"a", SoftHyphen, "/", "b">>),
      Chars(<<OrdinalA, "/", "b">>) }

\* Values of the Authorization header: "", "B", "B t", "B t u", "B  t"
AuthorizationValues ==
    { Chars(<<>>), Chars(<<"B">>), Chars(<<"B", " ", "t">>),
      Chars(<<"B", " ", "t", " ", "u">>), Chars(<<"B", " ", " ", "t">>) }

\* The header lists of the requests: each header absent or present
HeaderLists ==
    { x @@ t @@ a :
        x \in { <<>> } \cup { "x-custom" :> v : v \in CustomValues },
        t \in { <<>> } \cup { "content-type" :> v : v \in ContentTypeValues },
        a \in { <<>> } \cup { "authorization" :> v : v \in AuthorizationValues } }

\* new Request("https://localhost", { headers })
RequestWithHeaders(headers) ==
    [tag |-> "Request", method |-> "GET", url |-> "https://localhost",
     headers |-> headers]

\* The `expected` argument of withHeader
Expecteds == { Undefined, Null, Chars(<<"o", "k">>), Chars(<<>>) }

\* The argument of withContentType: "a/b", "A/B"
MediaTypes == { Chars(<<"a", "/", "b">>), Chars(<<"A", "/", "B">>) }

\* What authorize returns: undefined, a context, a terminal value
AuthorizeReturns(c, id) ==
    { Undefined, With(c, "token" :> Bool(TRUE), id),
      [tag |-> "Response", status |-> 403, headers |-> <<>>] }

InitWith ==
    /\ createRoutes = <<>>
    /\ request \in { RequestWithHeaders(h) : h \in HeaderLists }
    /\ ctxData = EmptyData
    /\ routes = <<>>
    /\ factoryCalls = 0
    /\ pc = "helper"
    /\ ri = 0
    /\ hi = 0
    /\ initialCtx = Undefined
    /\ ctx = Undefined
    /\ pending = None
    /\ chainOutcome = None
    /\ result = None
    /\ log = <<>>
    /\ execCalls = <<>>
    /\ nextId = 1
    /\ objs = <<>>
    /\ probe = None
    /\ frames = <<>>

\* createContext({ request, urlPatternResult })
CreateHelperContext ==
    /\ pc = "helper"
    /\ initialCtx = Undefined
    /\ initialCtx' = InitialContext(request, Exec(URLPattern("/api/*"), "/api/users"),
                                    EmptyData, nextId)
    /\ nextId' = nextId + 1
    /\ UNCHANGED <<ctxVars, frames, createRoutes, request, ctxData, routes,
                   factoryCalls, pc, ri, hi, ctx, pending, chainOutcome, result,
                   log, execCalls>>

\* withHeader(name, expected)(ctx)
CallWithHeader ==
    /\ pc = "helper"
    /\ initialCtx # Undefined
    /\ \E name \in {"X-custom", "x-custom"} : \E expected \in Expecteds :
         probe' = [helper |-> "withHeader", name |-> name, expected |-> expected,
                   returned |-> withHeader(name, expected, initialCtx),
                   calls |-> <<>>]
    /\ UNCHANGED <<runVars, objs, frames>>

\* withContentType(expectedMediaType)(ctx)
CallWithContentType ==
    /\ pc = "helper"
    /\ initialCtx # Undefined
    /\ \E expectedMediaType \in MediaTypes :
         probe' = [helper |-> "withContentType", expected |-> expectedMediaType,
                   returned |-> withContentType(expectedMediaType, initialCtx),
                   calls |-> <<>>]
    /\ UNCHANGED <<runVars, objs, frames>>

\* withAuthorization(authorize)(ctx)
CallWithAuthorization ==
    /\ pc = "helper"
    /\ initialCtx # Undefined
    /\ \E returns \in AuthorizeReturns(initialCtx, nextId) :
         LET r == withAuthorization(returns, initialCtx) IN
         probe' = [helper |-> "withAuthorization", authorize |-> returns,
                   returned |-> r.returned, calls |-> r.calls]
    /\ UNCHANGED <<runVars, objs, frames>>

WithNext ==
    \/ CreateHelperContext
    \/ CallWithHeader
    \/ CallWithContentType
    \/ CallWithAuthorization

SpecWith == InitWith /\ [][WithNext]_vars

----------------------------------------------------------------------------
(* Two calls of route() in flight at once *)

\* What the factories of the two calls return: one route of two handlers
ConcurrentFactories ==
    { << PipeHandlers(On("*", "/api/*"), 1, 2) >>,
      << PipeHandlers(On("GET", "/api/users"), 2, 2) >> }

\* A call that has been made and has not run yet
StartFrame(factory, req) ==
    [createRoutes |-> factory, request |-> req, ctxData |-> EmptyData,
     routes |-> <<>>, factoryCalls |-> 0, pc |-> "start", ri |-> 0, hi |-> 0,
     initialCtx |-> Undefined, ctx |-> Undefined, pending |-> None,
     chainOutcome |-> None, result |-> None, log |-> <<>>, execCalls |-> <<>>]

InitConcurrent ==
    /\ createRoutes \in ConcurrentFactories
    /\ request \in Requests
    /\ ctxData = EmptyData
    /\ routes = <<>>
    /\ factoryCalls = 0
    /\ pc = "start"
    /\ ri = 0
    /\ hi = 0
    /\ initialCtx = Undefined
    /\ ctx = Undefined
    /\ pending = None
    /\ chainOutcome = None
    /\ result = None
    /\ log = <<>>
    /\ execCalls = <<>>
    /\ nextId = 1
    /\ objs = <<>>
    /\ probe = None
    /\ frames \in { << StartFrame(factory, req) >> :
                      factory \in ConcurrentFactories, req \in Requests }

\* mutant: `ctx` is one variable shared by every run of a chain
Switch_SharedCtx ==
    /\ pc \in {"chainAwait", "routeAwait", "done"}
    /\ frames[1].pc # "done"
    /\ frames' = << Frame >>
    /\ createRoutes' = frames[1].createRoutes
    /\ request' = frames[1].request
    /\ ctxData' = frames[1].ctxData
    /\ routes' = frames[1].routes
    /\ factoryCalls' = frames[1].factoryCalls
    /\ pc' = frames[1].pc
    /\ ri' = frames[1].ri
    /\ hi' = frames[1].hi
    /\ initialCtx' = frames[1].initialCtx
    /\ ctx' = ctx
    /\ pending' = frames[1].pending
    /\ chainOutcome' = frames[1].chainOutcome
    /\ result' = frames[1].result
    /\ log' = frames[1].log
    /\ execCalls' = frames[1].execCalls
    /\ UNCHANGED <<ctxVars, nextId>>

\* the running call is suspended at an `await` (or has returned) and the
\* other call runs: each call has its own parameters and locals
Switch ==
    /\ pc \in {"chainAwait", "routeAwait", "done"}
    /\ frames[1].pc # "done"
    /\ frames' = << Frame >>
    /\ createRoutes' = frames[1].createRoutes
    /\ request' = frames[1].request
    /\ ctxData' = frames[1].ctxData
    /\ routes' = frames[1].routes
    /\ factoryCalls' = frames[1].factoryCalls
    /\ pc' = frames[1].pc
    /\ ri' = frames[1].ri
    /\ hi' = frames[1].hi
    /\ initialCtx' = frames[1].initialCtx
    /\ ctx' = frames[1].ctx
    /\ pending' = frames[1].pending
    /\ chainOutcome' = frames[1].chainOutcome
    /\ result' = frames[1].result
    /\ log' = frames[1].log
    /\ execCalls' = frames[1].execCalls
    /\ UNCHANGED <<ctxVars, nextId>>

ConcurrentNext ==
    \/ Next
    \/ Switch

SpecConcurrent == InitConcurrent /\ [][ConcurrentNext]_vars

----------------------------------------------------------------------------
(* Chains of constant handlers: pipe after a handler that always terminates *)

\* `() => v`: a handler that returns v whatever context it is given
Constant(v) == [tag |-> "function", brand |-> FALSE, returns |-> v]

\* `() => { throw e }`: a handler that throws e whatever context it is given
Throwing(e) == [tag |-> "function", brand |-> FALSE, throws |-> e]

\* `() => "terminated"`, `() => null`, `() => undefined` and a throwing handler
ConstantHandlers ==
    { Constant(Str("terminated")), Constant(Null), Constant(Undefined),
      Throwing(Error("boom")) }

\* chain.pipe(h) for a constant handler h, on a chain made earlier
CallPipeConstant ==
    /\ pc = "pipe"
    /\ Len(objs) < MaxObjs
    /\ \E i \in 1..Len(objs) : \E h \in ConstantHandlers :
         LET chain == pipe(objs[i].value, h) IN
         objs' = Append(objs, [value |-> chain, made |-> chain, parent |-> i,
                               handler |-> h])
    /\ UNCHANGED <<runVars, probe, frames>>

\* `handler(ctx)` for a constant handler
InvokeConstant ==
    /\ pc = "chainLoop"
    /\ hi <= Len(routes[ri].handlers)
    /\ LET h == routes[ri].handlers[hi]
           o == IF "throws" \in DOMAIN h THEN Rejected(h.throws)
                ELSE Fulfilled(h.returns) IN
         /\ pending' = o
         /\ log' = Append(log, [handler |-> routes[ri].handlers[hi],
                                arg |-> ctx, settled |-> o, pos |-> hi])
    /\ nextId' = nextId + 1
    /\ pc' = "chainAwait"
    /\ UNCHANGED <<ctxVars, frames, initialCtx, createRoutes, request, ctxData, routes,
                   factoryCalls, ri, hi, ctx, chainOutcome, result, execCalls>>

ExtendNext ==
    \/ CallCreateChain
    \/ CallPipeConstant
    \/ RunChain
    \/ Branch
    \/ InvokeConstant
    \/ ResumeContinue
    \/ ResumeTerminate
    \/ ResumeThrow
    \/ ChainExhausted
    \/ BranchReturn

SpecExtend == InitPipe /\ [][ExtendNext]_vars

----------------------------------------------------------------------------

(* Direct calls of createContext and with on data holding nested objects *)

\* An object literal held in a field: `id` is its identity
Nested(id, fields) == [tag |-> "object", id |-> id, fields |-> fields]

\* Data and patches whose fields are objects
NestedDataSets ==
    { EmptyData,
      "x" :> Nested(101, "a" :> Num(1)),
      "x" :> Nested(102, "b" :> Num(2)),
      "y" :> Nested(103, "c" :> Num(3)),
      "x" :> Nested(101, "a" :> Num(1)) @@ "y" :> Nested(103, "c" :> Num(3)) }

\* createContext(data) for data holding nested objects
CallCreateContextNested ==
    /\ pc = "context"
    /\ Len(objs) < MaxObjs
    /\ \E data \in NestedDataSets :
         LET c == createContext(data, nextId) IN
         objs' = Append(objs, [value |-> c, made |-> c, parent |-> 0, patch |-> data])
    /\ nextId' = nextId + 1
    /\ UNCHANGED <<createRoutes, request, ctxData, routes, factoryCalls, pc, ri,
                   hi, initialCtx, ctx, pending, chainOutcome, result, log,
                   execCalls, probe, frames>>

\* c.with(ext) for a patch holding nested objects
CallWithNested ==
    /\ pc = "context"
    /\ Len(objs) < MaxObjs
    /\ \E i \in 1..Len(objs) : \E ext \in NestedDataSets :
         LET c == With(objs[i].value, ext, nextId) IN
         objs' = Append(objs, [value |-> c, made |-> c, parent |-> i, patch |-> ext])
    /\ nextId' = nextId + 1
    /\ UNCHANGED <<createRoutes, request, ctxData, routes, factoryCalls, pc, ri,
                   hi, initialCtx, ctx, pending, chainOutcome, result, log,
                   execCalls, probe, frames>>

ShallowNext ==
    \/ CallCreateContextNested
    \/ CallWithNested

SpecShallow == InitCtx /\ [][ShallowNext]_vars

----------------------------------------------------------------------------

(* branch(factory, ctx) under a scheduler that runs every enabled step *)

\* Every handler's promise settles and the event loop resumes what awaits
\* it: a step of the call that can be taken is eventually taken
SpecChainFair == InitChain /\ [][ChainNext]_vars /\ WF_vars(ChainNext)

----------------------------------------------------------------------------

(* route() over routes whose handlers may run a sub-chain with branch *)

\* The innermost call returns by Return when it is route() and by
\* BranchReturn when it is branch(): both settle as the chain settled
RouteBranchNext ==
    \/ Next
    \/ CallBranch
    \/ Branch
    \/ BranchReturn
    \/ BranchSettles

SpecRouteBranch == InitCalls /\ [][RouteBranchNext]_vars

----------------------------------------------------------------------------

(* Caller data that has a field named `with` *)

\* Data, patches and ctxData: a `with` that is a string, an ordinary
\* function, or the `with` function of a context made elsewhere
ReservedDatas ==
    { "a" :> Num(1),
      "with" :> Str("mine"),
      "with" :> [tag |-> "function", brand |-> FALSE],
      "with" :> createWithFn("z" :> Num(9)),
      "with" :> Num(2) @@ "a" :> Num(2) }

\* Either a call of route() with such ctxData, or direct calls of
\* createContext and with
InitReserved ==
    /\ \/ /\ createRoutes \in Factories
          /\ request \in Requests
          /\ ctxData \in ReservedDatas
          /\ pc = "start"
       \/ /\ createRoutes = <<>>
          /\ request = Undefined
          /\ ctxData = EmptyData
          /\ pc = "context"
    /\ routes = <<>>
    /\ factoryCalls = 0
    /\ ri = 0
    /\ hi = 0
    /\ initialCtx = Undefined
    /\ ctx = Undefined
    /\ pending = None
    /\ chainOutcome = None
    /\ result = None
    /\ log = <<>>
    /\ execCalls = <<>>
    /\ nextId = 1
    /\ objs = <<>>
    /\ probe = None
    /\ frames = <<>>

\* createContext(data) for data that may have a `with` field
CallCreateContextReserved ==
    /\ pc = "context"
    /\ Len(objs) < MaxObjs
    /\ \E data \in ReservedDatas :
         LET c == createContext(data, nextId) IN
         objs' = Append(objs, [value |-> c, made |-> c, parent |-> 0, patch |-> data])
    /\ nextId' = nextId + 1
    /\ UNCHANGED <<createRoutes, request, ctxData, routes, factoryCalls, pc, ri,
                   hi, initialCtx, ctx, pending, chainOutcome, result, log,
                   execCalls, probe, frames>>

\* c.with(ext) for a patch that may have a `with` field
CallWithReserved ==
    /\ pc = "context"
    /\ Len(objs) < MaxObjs
    /\ \E i \in 1..Len(objs) : \E ext \in ReservedDatas :
         LET c == With(objs[i].value, ext, nextId) IN
         objs' = Append(objs, [value |-> c, made |-> c, parent |-> i, patch |-> ext])
    /\ nextId' = nextId + 1
    /\ UNCHANGED <<createRoutes, request, ctxData, routes, factoryCalls, pc, ri,
                   hi, initialCtx, ctx, pending, chainOutcome, result, log,
                   execCalls, probe, frames>>

ReservedNext ==
    \/ Next
    \/ CallCreateContextReserved
    \/ CallWithReserved

SpecReserved == InitReserved /\ [][ReservedNext]_vars

----------------------------------------------------------------------------

(* Handlers that assign a field on the context object they are given *)

\* `ctx.mark = true` and `ctx.a = 99`: the field a handler assigns
Assignments == { "mark" :> Bool(TRUE), "a" :> Num(99) }

\* The object c after `c.k = v`: the same identity, the field set; the data
\* its `with` function closes over is another object and is left alone
Assign(c, assigned) == [c EXCEPT !.fields = Spread(@, assigned)]

\* `handler(ctx)` for a handler that first assigns a field on ctx, then
\* returns undefined, ctx.with(patch) or a terminal value; `initialCtx` names
\* the same object as `ctx` until a handler has returned a context
InvokeAssigning ==
    /\ pc = "chainLoop"
    /\ hi <= Len(routes[ri].handlers)
    /\ \E assigned \in Assignments :
         LET c == Assign(ctx, assigned) IN
         /\ ctx' = c
         /\ initialCtx' = IF initialCtx.id = ctx.id THEN c ELSE initialCtx
         /\ \E o \in { Fulfilled(Undefined), Fulfilled(Str("done")) }
                       \cup { Fulfilled(With(c, p, nextId)) : p \in Patches(c) } :
              /\ pending' = o
              /\ log' = Append(log, [handler |-> routes[ri].handlers[hi],
                                     arg |-> ctx, settled |-> o,
                                     assigned |-> assigned])
    /\ nextId' = nextId + 1
    /\ pc' = "chainAwait"
    /\ UNCHANGED <<ctxVars, frames, createRoutes, request, ctxData, routes,
                   factoryCalls, ri, hi, chainOutcome, result, execCalls>>

AssignNext ==
    \/ Branch
    \/ InvokeHandler
    \/ InvokeAssigning
    \/ ResumeContinue
    \/ ResumeTerminate
    \/ ResumeThrow
    \/ ChainExhausted
    \/ BranchReturn

SpecAssign == InitChain /\ [][AssignNext]_vars

----------------------------------------------------------------------------

(* Vocabulary of the properties, stated over the inputs and the history *)

\* The declared route at index i matches the request in method and pattern
RouteMatches(i) ==
    /\ createRoutes[i].meta.method \in {"*", request.method}
    /\ URLPatternTest(createRoutes[i].meta.pattern.pathname, request.url)

MatchingRoutes == { i \in 1..Len(createRoutes) : RouteMatches(i) }

\* The lowest index of a matching route, 0 when there is none
FirstMatch ==
    IF MatchingRoutes = {} THEN 0
    ELSE CHOOSE i \in MatchingRoutes : \A k \in MatchingRoutes : i <= k

\* The index of the route whose chain was started, 0 when there is none
Selected == IF initialCtx = Undefined THEN 0 ELSE ri

ChainSettled == pc \in {"routeAwait", "done"} /\ Selected # 0

\* Kinds of settled handler results
ReturnedUndefined(o) == o = Fulfilled(Undefined)

ReturnedContext(o) == o.status = "fulfilled" /\ isContext(o.value)

ReturnedTerminal(o) ==
    o.status = "fulfilled" /\ o.value # Undefined /\ ~isContext(o.value)

Threw(o) == o.status = "rejected"

Continues(o) == ReturnedUndefined(o) \/ ReturnedContext(o)

\* The handlers of the first matching route
FirstMatchHandlers == createRoutes[FirstMatch].handlers

\* The result of a chain from the results of the handlers it ran
RECURSIVE ResultOf(_, _)
ResultOf(outcomes, n) ==
    IF outcomes = <<>> THEN (IF n = 0 THEN Fulfilled(Undefined) ELSE None)
    ELSE IF Continues(Head(outcomes)) THEN ResultOf(Tail(outcomes), n - 1)
    ELSE IF Len(outcomes) = 1 THEN Head(outcomes)
    ELSE None

----------------------------------------------------------------------------
(* Properties *)

\* C1: route() runs the chain of the lowest-index route that matches the
\* request in method and pattern and returns that chain's result; no handler
\* of any other route is ever invoked.
C1_FirstMatchWins ==
    /\ \A j \in 1..Len(log) :
         /\ FirstMatch # 0
         /\ j <= Len(FirstMatchHandlers)
         /\ log[j].handler = FirstMatchHandlers[j]
    /\ (pc = "done" /\ FirstMatch # 0) =>
         /\ Selected = FirstMatch
         /\ result = ResultOf([j \in 1..Len(log) |-> log[j].settled],
                              Len(FirstMatchHandlers))

\* an earlier wildcard pattern has won over a later, more specific one
C1_Witness ==
    /\ pc = "done"
    /\ Len(createRoutes) = 2
    /\ MatchingRoutes = {1, 2}
    /\ createRoutes[1].meta.pattern.pathname = "/api/*"
    /\ createRoutes[2].meta.pattern.pathname = "/api/users"
    /\ Len(createRoutes[2].handlers) > 0
    /\ Len(log) = 2
    /\ result = Fulfilled(Str("done"))

\* C2: as soon as a handler resolves to a value that is neither undefined
\* nor a context, the chain run stops and resolves to exactly that value; no
\* handler positioned after it is invoked.
C2_TerminalStops ==
    \A j \in 1..Len(log) :
        ReturnedTerminal(log[j].settled) =>
            /\ j = Len(log)
            /\ pc \in {"chainAwait", "routeAwait", "done"}
            /\ pc # "chainAwait" => chainOutcome = Fulfilled(log[j].settled.value)

\* the second of three handlers returned a plain object, the third never ran
C2_Witness ==
    /\ pc = "done"
    /\ Selected # 0
    /\ Len(routes[ri].handlers) = 3
    /\ Len(log) = 2
    /\ ReturnedTerminal(log[2].settled)
    /\ log[2].settled.value.tag = "object"
    /\ result = log[2].settled

\* C3: handlers are invoked in declaration order and each receives exactly
\* the context most recently returned by an earlier handler of the run, or
\* the initial context if none returned one.
C3_ContextThreading ==
    \A j \in 1..Len(log) :
        LET K == { k \in 1..(j - 1) : ReturnedContext(log[k].settled) } IN
        /\ log[j].handler = routes[ri].handlers[j]
        /\ log[j].arg =
             IF K = {} THEN initialCtx
             ELSE log[CHOOSE k \in K : \A m \in K : m <= k].settled.value

\* the third handler received the context the first one returned
C3_Witness ==
    /\ Len(log) = 3
    /\ ReturnedContext(log[1].settled)
    /\ ReturnedUndefined(log[2].settled)
    /\ log[3].arg = log[1].settled.value
    /\ log[3].arg # initialCtx

\* C4: a handler resolving to undefined neither terminates the run nor
\* changes the current context: the next handler is invoked with the very
\* context the undefined-returning handler received.
C4_UndefinedKeepsContext ==
    \A j \in 1..Len(log) :
        ReturnedUndefined(log[j].settled) =>
            /\ j < Len(log) => log[j + 1].arg = log[j].arg
            /\ (j = Len(log) /\ pc = "chainLoop") => (ctx = log[j].arg /\ hi = j + 1)
            /\ (j = Len(log) /\ ChainSettled) =>
                 /\ j = Len(routes[ri].handlers)
                 /\ chainOutcome = Fulfilled(Undefined)

\* an augmented context survived an undefined-returning handler
C4_Witness ==
    /\ Len(log) = 3
    /\ ReturnedContext(log[1].settled)
    /\ ReturnedUndefined(log[2].settled)
    /\ log[2].arg # initialCtx
    /\ log[3].arg = log[2].arg

\* C5: chain continue law: n handlers that each return undefined or a
\* context never end the run, and a handler returning a terminal value v
\* after them makes the run resolve to exactly v, for every n >= 0.
C5_ContinueLaw ==
    ChainSettled =>
        LET n == Len(log) IN
        /\ (\A j \in 1..n : Continues(log[j].settled)) =>
             n = Len(routes[ri].handlers)
        /\ (/\ n >= 1
            /\ \A j \in 1..(n - 1) : Continues(log[j].settled)
            /\ ReturnedTerminal(log[n].settled)) =>
             /\ chainOutcome = Fulfilled(log[n].settled.value)
             /\ pc = "done" => result = Fulfilled(log[n].settled.value)

\* n = 2: an augmenting and an undefined-returning handler, then "done"
C5_Witness ==
    /\ pc = "done"
    /\ Len(log) = 3
    /\ ReturnedContext(log[1].settled)
    /\ ReturnedUndefined(log[2].settled)
    /\ log[3].settled = Fulfilled(Str("done"))
    /\ result = Fulfilled(Str("done"))

\* C6: if a handler throws or rejects, the chain run and route() reject with
\* that same error, no handler after the failing one is invoked and no other
\* route is tried.
C6_ErrorPropagates ==
    \A j \in 1..Len(log) :
        Threw(log[j].settled) =>
            /\ j = Len(log)
            /\ pc \in {"chainAwait", "routeAwait", "done"}
            /\ pc # "chainAwait" => chainOutcome = Rejected(log[j].settled.value)
            /\ pc = "done" => result = Rejected(log[j].settled.value)
            /\ ri = log[j].handler.route
            /\ execCalls[Len(execCalls)] = log[j].handler.route

\* the second handler of route 1 threw; its third handler and the matching
\* route 2 were left alone
C6_Witness ==
    /\ pc = "done"
    /\ Len(createRoutes) = 2
    /\ MatchingRoutes = {1, 2}
    /\ Len(createRoutes[1].handlers) = 3
    /\ Len(log) = 2
    /\ Threw(log[2].settled)
    /\ result = Rejected(Error("boom"))

\* C7: if no declared route matches the request in both method and pattern,
\* route() resolves to undefined and no handler of any route is invoked.
C7_NoMatchUndefined ==
    FirstMatch = 0 =>
        /\ log = <<>>
        /\ Selected = 0
        /\ pc = "done" => result = Fulfilled(Undefined)

\* two routes with handlers, one failing the method test, the other the
\* pattern test
C7_Witness ==
    /\ pc = "done"
    /\ Len(createRoutes) = 2
    /\ FirstMatch = 0
    /\ Len(execCalls) = 1
    /\ \A i \in 1..2 : Len(createRoutes[i].handlers) > 0
    /\ result = Fulfilled(Undefined)

\* C8: if the first matching route's chain resolves to undefined, route()
\* resolves to undefined and does not fall through: later routes are
\* neither matched nor run.
C8_NoFallThrough ==
    (/\ FirstMatch # 0
     /\ chainOutcome # None
     /\ \A j \in 1..Len(log) :
          log[j].handler.route = FirstMatch => Continues(log[j].settled)) =>
        /\ pc \in {"routeAwait", "done"}
        /\ ri = FirstMatch
        /\ \A e \in 1..Len(execCalls) : execCalls[e] <= FirstMatch
        /\ \A j \in 1..Len(log) : log[j].handler.route = FirstMatch
        /\ pc = "done" => result = Fulfilled(Undefined)

\* route 1 matched and produced nothing; route 2 also matches and has
\* handlers
C8_Witness ==
    /\ pc = "done"
    /\ MatchingRoutes = {1, 2}
    /\ Len(createRoutes[2].handlers) > 0
    /\ Len(log) = 2
    /\ \A j \in 1..2 : Continues(log[j].settled)
    /\ result = Fulfilled(Undefined)

\* C9: a route declared with method "*" is selected for a request of any
\* method whose URL matches its pattern, unless an earlier route matches.
C9_WildcardMethod ==
    \A i \in 1..Len(createRoutes) :
        (/\ createRoutes[i].meta.method = "*"
         /\ URLPatternTest(createRoutes[i].meta.pattern.pathname, request.url)
         /\ \A k \in 1..(i - 1) : ~RouteMatches(k)
         /\ pc \notin {"start", "scan"}) =>
            Selected = i

\* a POST request went past a GET route to a "*" route
C9_Witness ==
    /\ pc = "done"
    /\ Len(createRoutes) = 2
    /\ request.method = "POST"
    /\ createRoutes[1].meta.method = "GET"
    /\ createRoutes[2].meta.method = "*"
    /\ Selected = 2
    /\ Len(log) > 0

\* C10: a route whose method is not "*" and differs from the request's is
\* never selected, even when its pattern matches; its chain is not run and
\* scanning continues with the next route.
C10_MethodMismatchSkips ==
    \A i \in 1..Len(createRoutes) :
        (/\ createRoutes[i].meta.method # "*"
         /\ createRoutes[i].meta.method # request.method) =>
            /\ Selected # i
            /\ \A j \in 1..Len(log) : log[j].handler.route # i
            /\ (/\ pc \notin {"start", "scan"}
                /\ \A k \in 1..(i - 1) : ~RouteMatches(k)
                /\ i < Len(createRoutes)
                /\ RouteMatches(i + 1)) => Selected = i + 1

\* a GET route whose pattern matches a POST request was passed over
C10_Witness ==
    /\ pc = "done"
    /\ Len(createRoutes) = 2
    /\ request.method = "POST"
    /\ createRoutes[1].meta.method = "GET"
    /\ URLPatternTest(createRoutes[1].meta.pattern.pathname, request.url)
    /\ Len(createRoutes[1].handlers) > 0
    /\ Selected = 2
    /\ result = Fulfilled(Str("done"))

\* The match result of the declared route i against the request URL
MatchResultOf(i) ==
    [tag |-> "URLPatternResult",
     pattern |-> createRoutes[i].meta.pattern.pathname,
     input |-> request.url]

\* C11: router precedence law: in the initial context handed to the
\* selected chain every caller-supplied field has the caller's value, also
\* when it is named like an intrinsic, and both intrinsic fields are present.
C11_CallerDataWins ==
    Selected # 0 =>
        /\ \A k \in DOMAIN ctxData : initialCtx.fields[k] = ctxData[k]
        /\ {"request", "urlPatternResult"} \subseteq DOMAIN initialCtx.fields
        /\ log # <<>> => log[1].arg = initialCtx

\* the caller's `request` replaced the intrinsic one, `user` came along
C11_Witness ==
    /\ log # <<>>
    /\ "request" \in DOMAIN ctxData
    /\ log[1].arg.fields["request"] = Str("caller")
    /\ log[1].arg.fields["user"] = Str("alice")
    /\ log[1].arg.fields["urlPatternResult"] = MatchResultOf(Selected)

\* C12 as stated: the first handler of the selected route receives a context
\* whose request is the incoming request and whose urlPatternResult is the
\* result of matching that route's pattern, together with the caller's data.
C12_Original ==
    log # <<>> =>
        /\ log[1].arg.fields["request"] = request
        /\ log[1].arg.fields["urlPatternResult"] = MatchResultOf(log[1].handler.route)
        /\ \A k \in DOMAIN ctxData : log[1].arg.fields[k] = ctxData[k]

\* C12 (amended): the first handler of the selected route receives the
\* caller-supplied data, and for each intrinsic name the caller did not
\* supply: request is the incoming request, urlPatternResult is the result
\* of matching that same route's pattern against the request URL.
C12_IntrinsicsOfSelectedRoute ==
    log # <<>> =>
        /\ log[1].handler.route = Selected
        /\ "request" \notin DOMAIN ctxData =>
             log[1].arg.fields["request"] = request
        /\ "urlPatternResult" \notin DOMAIN ctxData =>
             log[1].arg.fields["urlPatternResult"] = MatchResultOf(Selected)
        /\ \A k \in DOMAIN ctxData : log[1].arg.fields[k] = ctxData[k]

\* route 2 was selected after route 1's different pattern failed
C12_Witness ==
    /\ log # <<>>
    /\ Selected = 2
    /\ createRoutes[1].meta.pattern.pathname = "/api/users"
    /\ createRoutes[2].meta.pattern.pathname = "/api/*"
    /\ execCalls = <<1, 2>>
    /\ ctxData = EmptyData
    /\ log[1].arg.fields["request"] = request
    /\ log[1].arg.fields["urlPatternResult"].pattern = "/api/*"

\* The data fields of a context: every field but `with`
DataOf(c) == [k \in (DOMAIN c.fields) \ {"with"} |-> c.fields[k]]

\* overlay(p, q) of the overlay law: the keys of both, q's value on collision
Overlay(p, q) ==
    [k \in (DOMAIN p) \cup (DOMAIN q) |-> IF k \in DOMAIN q THEN q[k] ELSE p[k]]

\* The contexts that came out of a with call
Derived == { i \in 1..Len(objs) : objs[i].parent # 0 }

\* C13: ctx.with(patch) returns a context in which every field of patch has
\* patch's value and every other data field of ctx keeps ctx's value;
\* nothing else is dropped or added.
C13_WithOverlays ==
    \A i \in Derived :
        LET c == objs[objs[i].parent].made
            r == objs[i].value
            patch == objs[i].patch
        IN  /\ \A k \in DOMAIN patch : r.fields[k] = patch[k]
            /\ \A k \in (DOMAIN DataOf(c)) \ (DOMAIN patch) : r.fields[k] = c.fields[k]
            /\ DOMAIN DataOf(r) = (DOMAIN DataOf(c)) \cup (DOMAIN patch)

\* {a: 1, b: 1}.with({a: 2}) is {a: 2, b: 1}
C13_Witness ==
    /\ Len(objs) = 2
    /\ objs[2].parent = 1
    /\ DataOf(objs[1].value) = ("a" :> Num(1) @@ "b" :> Num(1))
    /\ objs[2].patch = ("a" :> Num(2))
    /\ DataOf(objs[2].value) = ("a" :> Num(2) @@ "b" :> Num(1))

\* C14: with never mutates: after any sequence of with calls on a context or
\* on its descendants, every context obtained earlier still has exactly the
\* fields and values it had when it was made.
C14_WithNeverMutates ==
    \A i \in 1..Len(objs) : objs[i].value = objs[i].made

\* a context, its child and its grandchild, each overriding field a
C14_Witness ==
    /\ Len(objs) = 3
    /\ objs[2].parent = 1
    /\ objs[3].parent = 2
    /\ "a" \in DOMAIN objs[1].value.fields
    /\ objs[1].value.fields["a"] = Num(1)
    /\ objs[2].value.fields["a"] = Num(2)
    /\ objs[3].value.fields["a"] = Num(1)
    /\ "b" \in DOMAIN objs[3].patch
    /\ "b" \notin DOMAIN objs[1].value.fields

\* C15: overlay law: c.with(p).with(q) has the same data fields and values
\* as c.with(overlay(p, q)).
C15_OverlayLaw ==
    \A i \in Derived :
        objs[i].parent \in Derived =>
            LET j == objs[i].parent
                c == objs[objs[j].parent].value
            IN  DataOf(objs[i].value)
                  = DataOf(With(c, Overlay(objs[j].patch, objs[i].patch), 0))

\* p and q collide on a, p alone brings b
C15_Witness ==
    /\ Len(objs) = 3
    /\ objs[2].parent = 1
    /\ objs[3].parent = 2
    /\ objs[1].patch = EmptyData
    /\ objs[2].patch = ("a" :> Num(1) @@ "b" :> Num(1))
    /\ objs[3].patch = ("a" :> Num(2))
    /\ DataOf(objs[3].value) = ("a" :> Num(2) @@ "b" :> Num(1))

\* C16: identity preservation: c.with({}) is a value distinct from c (and
\* from every other context) with the same data fields and values, and
\* isContext holds for it.
C16_EmptyPatch ==
    \A i \in Derived :
        objs[i].patch = EmptyData =>
            /\ \A j \in 1..Len(objs) : j # i => objs[j].value.id # objs[i].value.id
            /\ DataOf(objs[i].value) = DataOf(objs[objs[i].parent].value)
            /\ isContext(objs[i].value)

\* {a: 1, b: 1}.with({})
C16_Witness ==
    /\ Len(objs) = 2
    /\ objs[2].parent = 1
    /\ objs[2].patch = EmptyData
    /\ DataOf(objs[2].value) = ("a" :> Num(1) @@ "b" :> Num(1))
    /\ objs[2].value # objs[1].value

\* C17: isContext precision: isContext answers true for every value made by
\* createContext or with, and false for every plain value: objects with an
\* unbranded, non-function or absent `with`, null, undefined, primitives,
\* arrays and functions.
C17_IsContextPrecision ==
    probe # None =>
        probe.answer = (\E i \in 1..Len(objs) : objs[i].value = probe.value)

\* an object with an ordinary `with` function was probed next to a context
\* made by with
C17_Witness ==
    /\ probe # None
    /\ probe.value = Obj("with" :> OrdinaryFn @@ "someData" :> Bool(TRUE))
    /\ probe.answer = FALSE
    /\ Len(objs) = 2
    /\ objs[2].parent = 1

\* The value carries a `with` function made by createWithFn
CarriesModuleWith(v) ==
    /\ "fields" \in DOMAIN v
    /\ "with" \in DOMAIN v.fields
    /\ "data" \in DOMAIN v.fields["with"]
    /\ v.fields["with"] = createWithFn(v.fields["with"].data)

\* The j-th invocation returned a context that with made from its argument
MadeByWith(j) ==
    /\ log[j].settled.status = "fulfilled"
    /\ "id" \in DOMAIN log[j].settled.value
    /\ \E p \in Patches(log[j].arg) :
         log[j].settled.value = With(log[j].arg, p, log[j].settled.value.id)

\* The j-th invocation returned an object
ReturnedObject(j) ==
    /\ log[j].settled.status = "fulfilled"
    /\ log[j].settled.value.tag \in {"object", "array"}

\* The chain ended at its j-th invocation and resolved to what it returned
TerminatedAt(j) ==
    /\ j = Len(log)
    /\ pc \in {"chainAwait", "routeAwait", "done"}
    /\ pc # "chainAwait" => chainOutcome = log[j].settled
    /\ pc = "done" => result = log[j].settled

\* The chain went on after its j-th invocation, with what it returned as
\* the current context
AugmentedAt(j) ==
    /\ j = Len(log) => \/ pc = "chainAwait"
                       \/ pc = "chainLoop" /\ ctx = log[j].settled.value
                       \/ j = Len(routes[ri].handlers)
                          /\ pc \in {"routeAwait", "done"}
                          /\ chainOutcome = Fulfilled(Undefined)
    /\ j < Len(log) => log[j + 1].arg = log[j].settled.value

\* C18 as stated: a handler result is treated as "continue with new context"
\* only if it is a context made by createContext or with; every other
\* object, one that copies the fields of a context included, is terminal.
C18_Original ==
    \A j \in 1..Len(log) :
        ReturnedObject(j) =>
            IF MadeByWith(j) THEN AugmentedAt(j) ELSE TerminatedAt(j)

\* C18 (amended): a handler result is treated as "continue with new
\* context" only if its `with` field is a function made by this module;
\* every other object, one with an ordinary `with` function included, is a
\* terminal value.  An object that copies the fields of a context carries
\* the context's own `with` and is treated as a context.
C18_BrandDecides ==
    \A j \in 1..Len(log) :
        ReturnedObject(j) =>
            IF CarriesModuleWith(log[j].settled.value)
            THEN AugmentedAt(j)
            ELSE TerminatedAt(j)

\* a copy of the context went on as the context, then an object with an
\* ordinary `with` ended the chain before its third handler
C18_Witness ==
    /\ pc = "done"
    /\ Len(routes[1].handlers) = 3
    /\ Len(log) = 2
    /\ HasProperty(log[1].settled.value, "copied")
    /\ log[2].arg = log[1].settled.value
    /\ log[2].settled = Fulfilled(FakeContext)
    /\ result = Fulfilled(FakeContext)

\* C19: a terminal value that is falsy but not undefined (null, false, 0,
\* "") ends the chain and is returned exactly; only undefined is the no-op
\* marker.
C19_FalsyTerminates ==
    \A j \in 1..Len(log) :
        /\ (log[j].settled.status = "fulfilled"
            /\ log[j].settled.value \in FalsyValues) => TerminatedAt(j)
        /\ (j < Len(log) /\ log[j + 1].arg = log[j].arg) =>
             log[j].settled = Fulfilled(Undefined)

\* 0 ended a chain of three handlers at the second one
C19_Witness ==
    /\ pc = "done"
    /\ Len(routes[1].handlers) = 3
    /\ Len(log) = 2
    /\ log[1].settled = Fulfilled(Undefined)
    /\ log[2].settled = Fulfilled(Num(0))
    /\ result = Fulfilled(Num(0))

\* C20: a chain in which every handler returns undefined or a context
\* resolves to undefined after invoking every handler exactly once, in
\* order; the nil chain resolves to undefined without invoking anything.
C20_AllContinueUndefined ==
    (ChainSettled /\ \A j \in 1..Len(log) : Continues(log[j].settled)) =>
        /\ chainOutcome = Fulfilled(Undefined)
        /\ pc = "done" => result = Fulfilled(Undefined)
        /\ Len(log) = Len(createRoutes[1].handlers)
        /\ \A j \in 1..Len(log) : log[j].handler = createRoutes[1].handlers[j]

\* three handlers, one returning undefined and two a context
C20_Witness ==
    /\ pc = "done"
    /\ Len(createRoutes[1].handlers) = 3
    /\ Len(log) = 3
    /\ ReturnedContext(log[1].settled)
    /\ ReturnedUndefined(log[2].settled)
    /\ ReturnedContext(log[3].settled)
    /\ result = Fulfilled(Undefined)

\* The positions in execCalls at which the exec'd route matched the request:
\* one for every chain route() has started
ChainsRun == { k \in 1..Len(execCalls) : RouteMatches(execCalls[k]) }

\* C21: within one chain run handlers execute strictly one after another:
\* handler h(i+1) is not invoked until what h(i) returned has settled and the
\* chain has resumed from it, so at most one handler of a run is in progress
\* at any time, and the handlers start in declaration order.
C21_OneAtATime ==
    Selected # 0 =>
        /\ \A j \in 1..Len(log) : log[j].handler = createRoutes[Selected].handlers[j]
        /\ pc = "chainLoop" => (Len(log) = hi - 1 /\ pending = None)
        /\ pc = "chainAwait" => (Len(log) = hi /\ pending = log[hi].settled)
        /\ pc \in {"routeAwait", "done"} => (Len(log) <= hi /\ pending = None)

\* the third handler is in progress, the first two have settled
C21_Witness ==
    /\ pc = "chainAwait"
    /\ hi = 3
    /\ Len(log) = 3
    /\ pending = log[3].settled
    /\ ReturnedContext(log[1].settled)
    /\ ReturnedUndefined(log[2].settled)

\* C22 as stated: exactly one route's chain executes per route() invocation,
\* for every request and every declared route list.
C22_Original ==
    pc = "done" => Cardinality(ChainsRun) = 1

\* C22 (amended): at most one route's chain executes per route() invocation:
\* exactly one when some declared route matches the request, and none when
\* no declared route matches.
C22_AtMostOneChain ==
    /\ Cardinality(ChainsRun) <= 1
    /\ pc = "done" =>
         Cardinality(ChainsRun) = (IF MatchingRoutes = {} THEN 0 ELSE 1)

\* two routes match, the chain of the first resolved to undefined, and the
\* second route was never tried
C22_Witness ==
    /\ pc = "done"
    /\ MatchingRoutes = {1, 2}
    /\ Len(createRoutes[1].handlers) > 0
    /\ Len(log) = Len(createRoutes[1].handlers)
    /\ result = Fulfilled(Undefined)
    /\ execCalls = <<1>>

Branched(j) == "inner" \in DOMAIN log[j]

\* The results of the invocations of the run, in order
Outcomes == [j \in 1..Len(log) |-> log[j].settled]

\* C23: a sub-chain run by branch from inside a handler terminates locally:
\* what it resolves to is handed to the calling handler as an ordinary
\* value, and the enclosing chain continues or terminates solely according
\* to what the calling handler returns.
C23_SubChainIsLocal ==
    /\ (pc = "done" /\ frames # <<>>) =>
         result = ResultOf(Outcomes, Len(createRoutes[1].handlers))
    /\ frames = <<>> =>
         /\ ChainSettled =>
              chainOutcome = ResultOf(Outcomes, Len(createRoutes[1].handlers))
         /\ \A j \in 1..Len(log) :
              Branched(j) =>
                  /\ ReturnedUndefined(log[j].settled) =>
                       /\ j < Len(log) => log[j + 1].arg = log[j].arg
                       /\ (j = Len(log) /\ pc = "chainLoop") => ctx = log[j].arg
                  /\ ReturnedContext(log[j].settled) => AugmentedAt(j)
                  /\ ReturnedTerminal(log[j].settled) => TerminatedAt(j)

\* the sub-chain of the first handler resolved to "done", the handler
\* returned undefined, and the enclosing chain went on to its last handler
C23_Witness ==
    /\ pc = "done"
    /\ frames = <<>>
    /\ Len(createRoutes[1].handlers) = 3
    /\ Len(log) = 3
    /\ Branched(1)
    /\ log[1].inner = Fulfilled(Str("done"))
    /\ log[1].settled = Fulfilled(Undefined)
    /\ log[2].arg = log[1].arg
    /\ result = Fulfilled(Undefined)

\* C24: pipe is non-destructive: chain.pipe(h) returns a new chain whose
\* handler list is the receiver's list followed by h, and the receiver's
\* handler list is unchanged, so running the receiver (or piping a different
\* handler onto it) afterwards never invokes h.
C24_PipeNonDestructive ==
    /\ \A k \in 1..Len(objs) :
         /\ objs[k].value = objs[k].made
         /\ objs[k].parent = 0 => objs[k].made.handlers = <<>>
         /\ objs[k].parent # 0 =>
              /\ objs[k].made.handlers =
                   objs[objs[k].parent].made.handlers \o <<objs[k].handler>>
              /\ objs[k].made.meta = objs[objs[k].parent].made.meta
    /\ probe # None =>
         /\ Len(log) <= Len(objs[probe.chain].made.handlers)
         /\ \A j \in 1..Len(log) :
              log[j].handler = objs[probe.chain].made.handlers[j]
         /\ (pc = "done" /\ \A j \in 1..Len(log) : Continues(log[j].settled)) =>
              Len(log) = Len(objs[probe.chain].made.handlers)

\* a second handler was piped onto a one-handler chain, and running that
\* chain afterwards invoked its one handler only
C24_Witness ==
    /\ pc = "done"
    /\ Len(objs) = 3
    /\ objs[2].parent = 1
    /\ objs[3].parent = 2
    /\ objs[2].handler = Handler(0, 1)
    /\ objs[3].handler = Handler(0, 2)
    /\ probe.chain = 2
    /\ Len(log) = 1
    /\ log[1].handler = Handler(0, 1)
    /\ result = Fulfilled(Undefined)

\* C25: every call to route() invokes the route-declaration factory exactly
\* once and matches only against the routes that call returned; nothing
\* declared in one route() call is visible to, or matched by, a later call.
C25_RoutesPerCall ==
    /\ factoryCalls = (IF pc = "start" THEN 0 ELSE 1)
    /\ \A k \in 1..Len(frames) : frames[k].factoryCalls = 1
    /\ pc # "start" => routes = createRoutes
    /\ \A k \in 1..Len(execCalls) : execCalls[k] \in 1..Len(createRoutes)
    /\ Selected # 0 =>
         /\ Selected = FirstMatch
         /\ \A j \in 1..Len(log) : log[j].handler = FirstMatchHandlers[j]
    /\ (pc = "done" /\ FirstMatch = 0) =>
         (log = <<>> /\ result = Fulfilled(Undefined))

\* the first call ran the handler of its route; the second call, for the
\* same request and a factory that declares nothing, matched no route
C25_Witness ==
    /\ pc = "done"
    /\ frames # <<>>
    /\ frames[1].request = request
    /\ Len(frames[1].log) = 1
    /\ frames[1].result = Fulfilled(Str("done"))
    /\ createRoutes = <<>>
    /\ factoryCalls = 1
    /\ log = <<>>
    /\ result = Fulfilled(Undefined)

\* The request carries the header, under any spelling of its name
Present(name) == LowerName(name) \in DOMAIN request.headers

\* The value of a header the request carries
ValueOf(name) == request.headers[LowerName(name)]

\* A Response with the given status
IsResponse(v, status) == v.tag = "Response" /\ v.status = status

\* C26 as stated: withHeader(name) with no expected value returns undefined
\* iff the request has the header, otherwise a 415 Response;
\* withHeader(name, expected) returns undefined iff the header's value is
\* strictly equal to expected, otherwise (wrong value or missing header) a
\* 415 Response.
C26_Original ==
    (probe # None /\ probe.helper = "withHeader") =>
        LET passes == IF probe.expected = Undefined
                      THEN Present(probe.name)
                      ELSE Present(probe.name) /\ ValueOf(probe.name) = probe.expected
        IN  IF passes THEN probe.returned = Undefined
            ELSE IsResponse(probe.returned, 415)

\* C26 (amended): withHeader(name) with no expected value returns undefined
\* iff the request has the header; withHeader(name, expected) with a string
\* returns undefined iff the header is present with exactly that value;
\* withHeader(name, null) returns undefined iff the header is missing.  In
\* every other case the result is a 415 Response.
C26_HeaderCheck ==
    (probe # None /\ probe.helper = "withHeader") =>
        LET passes == IF probe.expected = Undefined THEN Present(probe.name)
                      ELSE IF probe.expected = Null THEN ~Present(probe.name)
                      ELSE Present(probe.name) /\ ValueOf(probe.name) = probe.expected
        IN  IF passes THEN probe.returned = Undefined
            ELSE IsResponse(probe.returned, 415)

\* withHeader("x-custom", null) let a request without the header through
C26_Witness ==
    /\ probe # None
    /\ probe.helper = "withHeader"
    /\ probe.name = "x-custom"
    /\ probe.expected = Null
    /\ ~Present("X-custom")
    /\ probe.returned = Undefined

\* Two characters are the same letter, in either case
SameLetter(x, y) == x = y \/ {x, y} \in { {"a", "A"}, {"b", "B"} }

\* Two strings are equal ignoring letter case
EqualIgnoringCase(s, t) ==
    Len(s) = Len(t) /\ \A i \in 1..Len(s) : SameLetter(s[i], t[i])

\* C27 as stated: withContentType(expected) returns undefined iff the
\* request's Content-Type header is present and equals expected ignoring
\* letter case; for any other value or a missing header it returns a 415
\* Response.
C27_Original ==
    (probe # None /\ probe.helper = "withContentType") =>
        IF /\ Present("Content-Type")
           /\ EqualIgnoringCase(probe.expected.str, ValueOf("Content-Type").str)
        THEN probe.returned = Undefined
        ELSE IsResponse(probe.returned, 415)

\* The part of a string before its first space, the whole string if none
FirstToken(s) ==
    IF \E i \in 1..Len(s) : s[i] = " "
    THEN SubSeq(s, 1, (CHOOSE i \in 1..Len(s) :
                           s[i] = " " /\ \A k \in 1..(i - 1) : s[k] # " ") - 1)
    ELSE s

\* The part of a string after its first space, the empty string if none
AfterFirstToken(s) ==
    IF \E i \in 1..Len(s) : s[i] = " "
    THEN SubSeq(s, Len(FirstToken(s)) + 2, Len(s))
    ELSE <<>>

\* C28: withAuthorization(authorize): with no Authorization header the
\* handler returns a 401 Response and authorize is never called; with the
\* header present (even empty) authorize is called exactly once with scheme
\* = the first space-separated token and credentials = the second token or
\* "" if there is none, and the handler's result is exactly what authorize
\* returned.
C28_Authorization ==
    (probe # None /\ probe.helper = "withAuthorization") =>
        IF ~Present("Authorization")
        THEN IsResponse(probe.returned, 401) /\ probe.calls = <<>>
        ELSE LET value == ValueOf("Authorization").str IN
             /\ Len(probe.calls) = 1
             /\ probe.calls[1].args.scheme = Chars(FirstToken(value))
             /\ probe.calls[1].args.credentials =
                  Chars(FirstToken(AfterFirstToken(value)))
             /\ probe.calls[1].ctx = initialCtx
             /\ probe.returned = probe.authorize

\* "B t u" was split into scheme "B" and credentials "t", and the context
\* authorize returned is the handler's result
C28_Witness ==
    /\ probe # None
    /\ probe.helper = "withAuthorization"
    /\ Present("Authorization")
    /\ ValueOf("Authorization") = Chars(<<"B", " ", "t", " ", "u">>)
    /\ probe.calls = << [args |-> [scheme |-> Chars(<<"B">>),
                                   credentials |-> Chars(<<"t">>)],
                         ctx |-> initialCtx] >>
    /\ isContext(probe.returned)
    /\ probe.returned = probe.authorize

\* The declared routes of call f that match its request
MatchingIn(f) ==
    { i \in 1..Len(f.createRoutes) :
        /\ f.createRoutes[i].meta.method \in {"*", f.request.method}
        /\ URLPatternTest(f.createRoutes[i].meta.pattern.pathname, f.request.url) }

\* The lowest index of a route of call f that matches, 0 when there is none
FirstMatchIn(f) ==
    IF MatchingIn(f) = {} THEN 0
    ELSE CHOOSE i \in MatchingIn(f) : \A k \in MatchingIn(f) : i <= k

\* The contexts created in call f: its initial context and the contexts its
\* handlers returned
ContextsOf(f) ==
    (IF f.initialCtx = Undefined THEN {} ELSE {f.initialCtx})
    \cup { f.log[k].settled.value :
             k \in { k \in 1..Len(f.log) : ReturnedContext(f.log[k].settled) } }

\* What call f resolves to when it runs alone and its handlers settle as
\* they did
AloneResult(f) ==
    IF FirstMatchIn(f) = 0 THEN Fulfilled(Undefined)
    ELSE ResultOf([j \in 1..Len(f.log) |-> f.log[j].settled],
                  Len(f.createRoutes[FirstMatchIn(f)].handlers))

\* Call f has run so far as it runs alone
RunsAsAlone(f) ==
    /\ f.log # <<>> => FirstMatchIn(f) # 0
    /\ f.initialCtx # Undefined => f.initialCtx.fields["request"] = f.request
    /\ \A j \in 1..Len(f.log) :
         LET K == { k \in 1..(j - 1) : ReturnedContext(f.log[k].settled) } IN
         /\ f.log[j].handler = f.createRoutes[FirstMatchIn(f)].handlers[j]
         /\ f.log[j].arg =
              IF K = {} THEN f.initialCtx
              ELSE f.log[CHOOSE k \in K : \A m \in K : m <= k].settled.value
    /\ f.pc = "done" => f.result = AloneResult(f)

\* C30: concurrent invocations do not interfere: when two route() calls are
\* interleaved at handler suspension points, no handler of one call ever
\* receives a context created in the other call, and each call's result is
\* the result it produces when run alone, for handlers that depend only on
\* their input context.
C30_NoInterference ==
    /\ RunsAsAlone(Frame)
    /\ RunsAsAlone(frames[1])
    /\ \A j \in 1..Len(log) : log[j].arg \notin ContextsOf(frames[1])
    /\ \A j \in 1..Len(frames[1].log) : frames[1].log[j].arg \notin ContextsOf(Frame)

\* two calls for the same request have both run two handlers, the second
\* call starting while the first awaited its first handler
C30_Witness ==
    /\ pc = "done"
    /\ frames[1].pc = "done"
    /\ request = frames[1].request
    /\ Len(log) = 2
    /\ Len(frames[1].log) = 2
    /\ ReturnedContext(log[1].settled)
    /\ ReturnedContext(frames[1].log[1].settled)
    /\ log[2].settled.value.tag = "object"
    /\ frames[1].log[2].settled.value.tag = "object"
    /\ frames[1].initialCtx.id < initialCtx.id
    /\ initialCtx.id < frames[1].log[2].settled.value.id
    /\ frames[1].log[2].settled.value.id < log[2].settled.value.id

\* The handler always produces a terminal value
AlwaysTerminates(h) ==
    "returns" \in DOMAIN h /\ h.returns # Undefined /\ ~isContext(h.returns)

\* The chain's last handler always produces a terminal value
Terminated(chain) ==
    chain.handlers # <<>> /\ AlwaysTerminates(chain.handlers[Len(chain.handlers)])

\* C31: pipe on a chain whose last handler always produces a terminal value
\* returns a chain holding the receiver's handlers and the appended one,
\* without failing; when that chain is run, no handler placed after a
\* terminating one is invoked and the run resolves to the terminal value.
C31_ExtendTerminated ==
    /\ \A i \in 1..Len(objs) :
         (objs[i].parent # 0 /\ Terminated(objs[objs[i].parent].made)) =>
             /\ objs[i].value.handlers =
                  Append(objs[objs[i].parent].made.handlers, objs[i].handler)
             /\ objs[objs[i].parent].value = objs[objs[i].parent].made
    /\ probe # None =>
         LET handlers == objs[probe.chain].made.handlers IN
         /\ \A j \in 1..Len(log) :
              \A k \in 1..(log[j].pos - 1) : ~AlwaysTerminates(handlers[k])
         /\ \A k \in 1..Len(handlers) :
              (/\ AlwaysTerminates(handlers[k])
               /\ \A m \in 1..(k - 1) : handlers[m] = Constant(Undefined)
               /\ pc = "done") =>
                  /\ Len(log) = k
                  /\ result = Fulfilled(handlers[k].returns)

\* `() => null` was piped after `() => "terminated"`; the chain ran and only
\* the first handler was invoked
C31_Witness ==
    /\ pc = "done"
    /\ probe # None
    /\ objs[probe.chain].made.handlers =
         <<Constant(Str("terminated")), Constant(Null)>>
    /\ Len(log) = 1
    /\ result = Fulfilled(Str("terminated"))

\* C32: with replaces a top-level field wholesale and never merges nested
\* structures: a field named in the patch is the patch's object, with that
\* object's fields only, and a field not named in the patch holds the very
\* object the receiver holds.
C32_ShallowOverlay ==
    \A i \in 1..Len(objs) :
        objs[i].parent # 0 =>
            LET c == objs[objs[i].parent].value
                r == objs[i].value
                p == objs[i].patch IN
            /\ \A k \in DOMAIN p :
                 /\ r.fields[k] = p[k]
                 /\ DOMAIN r.fields[k].fields = DOMAIN p[k].fields
            /\ \A k \in (DOMAIN c.fields) \ ((DOMAIN p) \cup {"with"}) :
                 /\ k \in DOMAIN r.fields
                 /\ r.fields[k] = c.fields[k]
                 /\ r.fields[k].id = c.fields[k].id
            /\ c = objs[objs[i].parent].made

\* c has x = {a: 1} and another nested object y; c.with({x: {b: 2}}) has
\* x = {b: 2} only and the same y
C32_Witness ==
    \E i \in 1..Len(objs) :
        /\ objs[i].parent # 0
        /\ objs[objs[i].parent].value.fields["with"].data =
             ("x" :> Nested(101, "a" :> Num(1)) @@ "y" :> Nested(103, "c" :> Num(3)))
        /\ objs[i].patch = ("x" :> Nested(102, "b" :> Num(2)))
        /\ objs[i].value.fields["x"].fields = ("b" :> Num(2))
        /\ objs[i].value.fields["y"] = objs[objs[i].parent].value.fields["y"]

\* The handlers invoked so far are the first Len(log) handlers of the chain,
\* each once and in index order
InvokedIsPrefix ==
    /\ Len(log) <= Len(createRoutes[1].handlers)
    /\ \A j \in 1..Len(log) :
         /\ log[j].handler = createRoutes[1].handlers[j]
         /\ log[j].handler.pos = j

\* C33: a chain run over n handlers that each settle always terminates, and
\* the handlers it invokes are a prefix h1..hk (k <= n) of the handler list,
\* each invoked once and in index order.
C33_TerminatesOnPrefix ==
    /\ <>(pc = "done" /\ result # None)
    /\ [](InvokedIsPrefix /\ (pc = "done" => [](pc = "done" /\ InvokedIsPrefix)))

\* a run of three handlers ended after its second: k = 2, n = 3
C33_Witness ==
    /\ pc = "done"
    /\ Len(createRoutes[1].handlers) = 3
    /\ Len(log) = 2
    /\ ReturnedContext(log[1].settled)
    /\ ReturnedTerminal(log[2].settled)
    /\ InvokedIsPrefix

\* The settled promise does not hold a context
NotAContext(o) == o.status = "fulfilled" => ~isContext(o.value)

\* C34: the result of a chain run is never a context, so neither route() nor
\* branch() resolves to one; a handler that returns the result of branch
\* unchanged terminates its chain or lets it continue with the same
\* context, and never augments.
C34_ResultNeverContext ==
    /\ chainOutcome # None => NotAContext(chainOutcome)
    /\ result # None => NotAContext(result)
    /\ frames = <<>> =>
         \A j \in 1..Len(log) :
             Branched(j) =>
                 /\ NotAContext(log[j].inner)
                 /\ log[j].settled = log[j].inner =>
                      /\ ~ReturnedContext(log[j].settled)
                      /\ j < Len(log) =>
                           /\ ReturnedUndefined(log[j].settled)
                           /\ log[j + 1].arg = log[j].arg
                      /\ ChainSettled =>
                           chainOutcome = ResultOf(Outcomes, Len(routes[ri].handlers))

\* inside route(), a handler ran a sub-chain whose handlers augmented the
\* context twice and returned the sub-chain's result, undefined, unchanged
C34_Witness ==
    /\ pc = "done"
    /\ frames = <<>>
    /\ Selected # 0
    /\ Len(log) = 1
    /\ Branched(1)
    /\ log[1].inner = Fulfilled(Undefined)
    /\ log[1].settled = log[1].inner
    /\ nextId > 4
    /\ result = Fulfilled(Undefined)

\* C35: if the value a chain run starts from is a context, every value
\* passed to a handler during the run is a context: no handler is invoked
\* with undefined, with a terminal value or with a context look-alike.
C35_HandlersGetContexts ==
    isContext(initialCtx) =>
        /\ \A j \in 1..Len(log) :
             /\ isContext(log[j].arg)
             /\ log[j].arg # Undefined
             /\ \A k \in 1..(j - 1) :
                  ReturnedTerminal(log[k].settled) => log[j].arg # log[k].settled.value
        /\ pc \in {"chainLoop", "chainAwait"} => isContext(ctx)

\* the run went on after a handler returned a copy of its context, and the
\* third handler was given that copy
C35_Witness ==
    /\ Len(log) = 3
    /\ isContext(initialCtx)
    /\ log[1].settled = Fulfilled(CopyOf(initialCtx, 2))
    /\ ReturnedUndefined(log[2].settled)
    /\ log[3].arg = CopyOf(initialCtx, 2)
    /\ isContext(log[3].arg)

\* The `with` field of c is a branded function of this module, and not the
\* value the caller's data gave under that name
WithIsOurs(c, data) ==
    /\ isContext(c)
    /\ c.fields["with"].tag = "function"
    /\ c.fields["with"].brand
    /\ "with" \in DOMAIN data => c.fields["with"] # data["with"]

\* C36: the field name `with` is reserved: whatever the data given to
\* createContext, the patch given to with or the ctxData given to route(),
\* the resulting context's `with` is the module's branded function, also
\* when the data has its own `with` key; the initial context of a route
\* always passes isContext.
C36_WithIsReserved ==
    /\ \A i \in 1..Len(objs) :
         /\ WithIsOurs(objs[i].value, objs[i].patch)
         /\ objs[i].parent # 0 =>
              WithIsOurs(objs[i].value, objs[objs[i].parent].patch)
    /\ Selected # 0 =>
         /\ WithIsOurs(initialCtx, ctxData)
         /\ \A j \in 1..Len(log) : WithIsOurs(log[j].arg, ctxData)

\* route() was given ctxData whose `with` is an ordinary function: the
\* first handler got a context whose `with` is the module's, and derived
\* another context from it
C36_Witness ==
    /\ Len(log) = 1
    /\ "with" \in DOMAIN ctxData
    /\ ctxData["with"] = [tag |-> "function", brand |-> FALSE]
    /\ isContext(log[1].arg)
    /\ log[1].arg.fields["with"].data["with"] = ctxData["with"]
    /\ ReturnedContext(log[1].settled)
    /\ log[1].settled.value.fields["with"].brand

\* The j-th invocation assigned a field on the context it was given
Assigned(j) == "assigned" \in DOMAIN log[j]

\* The data the context c was created with
CreationData(c) == c.fields["with"].data

\* C37: c.with(p) is computed from the data c was created with and from p,
\* not from c's current fields: a field a handler assigns on the context
\* object is seen by the later handlers that receive the same object, and is
\* not carried into a context derived from that object by with.
C37_WithUsesCreationData ==
    \A j \in 1..Len(log) :
        /\ ReturnedContext(log[j].settled) =>
             LET r == log[j].settled.value
                 base == CreationData(log[j].arg) IN
             /\ DOMAIN DataOf(r) = (DOMAIN base) \cup {"step"}
             /\ \A k \in (DOMAIN base) \ {"step"} : r.fields[k] = base[k]
             /\ CreationData(r) = DataOf(r)
        /\ (Assigned(j) /\ ReturnedUndefined(log[j].settled) /\ j < Len(log)) =>
             /\ log[j + 1].arg.id = log[j].arg.id
             /\ \A k \in DOMAIN log[j].assigned :
                  log[j + 1].arg.fields[k] = log[j].assigned[k]
             /\ CreationData(log[j + 1].arg) = CreationData(log[j].arg)

\* the first handler set ctx.a = 99 on a context created with a = 1, the
\* second saw 99 on the same object and returned ctx.with({step: 1}), the
\* third received a context whose a is 1
C37_Witness ==
    /\ Len(log) = 3
    /\ Assigned(1)
    /\ CreationData(log[1].arg) = ("a" :> Num(1))
    /\ log[1].arg.fields["a"] = Num(1)
    /\ log[1].assigned = ("a" :> Num(99))
    /\ ReturnedUndefined(log[1].settled)
    /\ log[2].arg.id = log[1].arg.id
    /\ log[2].arg.fields["a"] = Num(99)
    /\ ReturnedContext(log[2].settled)
    /\ log[3].arg = log[2].settled.value
    /\ log[3].arg.fields["a"] = Num(1)

\* The method test of the declared route i passes for the request
MethodPasses(i) == createRoutes[i].meta.method \in {"*", request.method}

\* C38: declaration is eager and scanning is lazy: the factory's whole route
\* list, every pattern constructed, exists before the first method or
\* pattern test, and a route's pattern is exec'd on the URL only if its
\* method test passed and no earlier route matched.
C38_EagerDeclarationLazyScan ==
    /\ pc = "start" => (routes = <<>> /\ ri = 0 /\ execCalls = <<>> /\ log = <<>>)
    /\ pc # "start" =>
         /\ factoryCalls = 1
         /\ routes = createRoutes
         /\ \A i \in 1..Len(routes) : routes[i].meta.pattern.tag = "URLPattern"
    /\ \A e \in 1..Len(execCalls) :
         /\ MethodPasses(execCalls[e])
         /\ \A k \in 1..(execCalls[e] - 1) : ~RouteMatches(k)
         /\ e > 1 => execCalls[e - 1] < execCalls[e]
    /\ pc = "done" =>
         \A i \in 1..Len(createRoutes) :
             (\E e \in 1..Len(execCalls) : execCalls[e] = i) <=>
                 (MethodPasses(i) /\ \A k \in 1..(i - 1) : ~RouteMatches(k))

\* both routes were declared; route 1 matched, so the pattern of route 2,
\* whose method also passes, was never exec'd
C38_Witness ==
    /\ pc = "done"
    /\ Len(routes) = 2
    /\ routes = createRoutes
    /\ MatchingRoutes = {1, 2}
    /\ execCalls = <<1>>
    /\ routes[2].meta.pattern = URLPattern("/api/users")

====
